---- MODULE Spec2Model ----
(***************************************************************************)
(* Article identity resolution and engagement state of the news            *)
(* aggregator: the vote store operations of favoriteService.ts, the        *)
(* article cache gateway of articleService.ts and the identity resolver    *)
(* of useNewsApp.ts / ArticleDetail.                                       *)
(***************************************************************************)
EXTENDS Integers, Sequences, FiniteSets, TLC

VARIABLES
    likes,          \* store relation 'likes': rows [article_id, user_id]
    dislikes,       \* store relation 'dislikes': rows [article_id, user_id]
    hist,           \* the last three completed vote calls, oldest first
    last,           \* the last completed engagement-store call and what it issued
    inflight,       \* vote calls in flight: each call's position and locals
    articlesTable,  \* store relation 'articles', in creation order
    alast,          \* the last completed article-gateway / resolver call
    nlast,          \* normalizeUrl: the input string and the key returned for it
    favorites,      \* store relation 'favorites': rows [id, article_id, user_id]
    currentUser,    \* useNewsApp state: the signed-in user's id, 0 for none
    articles,       \* useNewsApp state: the article list
    selectedArticle,      \* useNewsApp state: the selected article, or NoArticle
    favoriteArticleIds,   \* useNewsApp state: the set of favorited article ids
    showLoginModal,       \* useNewsApp state: the login prompt flag
    glast,          \* the last completed gesture and the store calls it issued
    resolving,      \* identity resolutions in flight: position and locals
    elast,          \* enrichArticlesWithCounts / getBatchCounts: input and result
    commentsTable,  \* store relation 'comments': rows [id, article_id, user_id]
    comments,       \* ArticleDetail state: the comment list, newest first
    clast,          \* the last completed comment gesture
    users,          \* store relation 'users': the ids that have a profile row
    klast,          \* the last completed comment-ledger call and what it issued
    flast,          \* the last completed addFavorite / removeFavorite call
    cached,         \* getCachedArticles: the label, the store's answer and the result
    slast,          \* saveArticles with failing upserts: the input, the table before, the result
    session,        \* authentication collaborator: the signed-in user's id, 0 for none
    authFlow,       \* session-event handlers in flight: each one's position and locals
    authLast,       \* the last session event delivered and its user
    gflow,          \* vote gestures in flight: each one's position and locals
    detail,         \* ArticleDetail state: dbId, the two vote flags, the effect's last dependencies
    feed            \* useNewsApp list loading: the mode, the active label, the loads in flight

voteVars == <<likes, dislikes, hist, last, inflight>>
artVars == <<articlesTable, alast>>
hookVars == <<currentUser, articles, selectedArticle, favoriteArticleIds, showLoginModal, glast>>
detailVars == <<commentsTable, comments, clast>>

\* The state outside the vote store and the article gateway.
ledgerVars == <<users, klast>>
sessVars == <<session, authFlow, authLast>>
extVars == <<ledgerVars, flast, cached, slast, sessVars, gflow, detail, feed>>
appVars == <<nlast, favorites, hookVars, resolving, elast, detailVars, extVars>>

vars == <<voteVars, artVars, appVars>>

(***************************************************************************)
(* Bounds of the model.                                                    *)
(***************************************************************************)
NumUsers == 2       \* user ids 1..NumUsers
NumArticles == 1    \* durable article ids 1..NumArticles handed to the vote calls
MaxCalls == 2       \* vote calls that may be in flight together
MaxBatch == 2       \* longest batch handed to saveArticles

Users == 1..NumUsers

(***************************************************************************)
(* Identifiers.  The state holds an identifier as a number; IdText gives   *)
(* the characters of the string it stands for, and the shape checks read   *)
(* those characters.  0 is the absent identifier (undefined); k > 0 is the *)
(* k-th identifier the store assigns, a hyphenated hexadecimal uuid; the   *)
(* negative numbers are strings that are not uuids.                        *)
(***************************************************************************)
HexSeq == <<"0", "1", "2", "3", "4", "5", "6", "7", "8", "9",
            "a", "b", "c", "d", "e", "f">>

HexChars == {HexSeq[i] : i \in DOMAIN HexSeq} \cup {"A", "B", "C", "D", "E", "F"}

Zeros(n) == [i \in 1..n |-> "0"]

UuidText(k) ==
    Zeros(8) \o <<"-">> \o Zeros(4) \o <<"-">> \o Zeros(4) \o <<"-">> \o Zeros(4)
        \o <<"-">> \o Zeros(10) \o <<HexSeq[((k \div 16) % 16) + 1], HexSeq[(k % 16) + 1]>>

BadIds == {-1, -2, -3, -4, -5}

IdUniverse == BadIds \cup (0..31)

IdText ==
    [k \in IdUniverse |->
        CASE k > 0  -> UuidText(k)
          [] k = 0  -> <<>>                                   \* undefined
          [] k = -1 -> <<>>                                   \* ""
          [] k = -2 -> Zeros(36)                              \* 36 hex digits, no hyphen
          [] k = -3 -> [UuidText(1) EXCEPT ![1] = "g"]        \* a uuid with a non-hex letter
          [] k = -4 -> SubSeq(UuidText(1), 1, 35)             \* a uuid cut to 35 characters
          [] OTHER  -> <<"t", "e", "m", "p", "-", "1">>]      \* "temp-1"

\* /^[0-9a-fA-F]{8}-[0-9a-fA-F]{4}-[0-9a-fA-F]{4}-[0-9a-fA-F]{4}-[0-9a-fA-F]{12}$/
MatchesUuidRegex(s) ==
    /\ Len(s) = 36
    /\ \A i \in 1..36 : IF i \in {9, 14, 19, 24} THEN s[i] = "-" ELSE s[i] \in HexChars

\* /^[0-9a-fA-F-]{36}$/
MatchesHexDashRegex(s) ==
    /\ Len(s) = 36
    /\ \A i \in 1..36 : s[i] \in HexChars \cup {"-"}

\* The identifiers each check accepts, computed once from their characters
\* (!id is true of undefined and of the empty string).
UuidShaped == {k \in IdUniverse : k # 0 /\ Len(IdText[k]) > 0 /\ MatchesUuidRegex(IdText[k])}
HexDashShaped == {k \in IdUniverse : k # 0 /\ Len(IdText[k]) > 0 /\ MatchesHexDashRegex(IdText[k])}

\* favoriteService.ts isValidUUID
IsValidUUID_Any(id) == id # 0 /\ Len(IdText[id]) > 0

IsValidUUID(id) == id \in UuidShaped

\* useNewsApp.ts ensureArticleSaved: article.id && /^[0-9a-fA-F-]{36}$/.test(article.id)
HasSavedIdShape_Never(id) == FALSE

HasSavedIdShape(id) == id \in HexDashShaped

ArticleIds == 1..NumArticles

(***************************************************************************)
(* The store's vote relations.  A store call either takes effect (ok) or   *)
(* is rejected and returns an error with no data; the client library       *)
(* returns the error, it does not throw.  A row is [article_id, user_id];  *)
(* its id column is not held in the state: the store never assigns an id   *)
(* twice, so an id read by a call matches its row until that row is        *)
(* deleted and no row afterwards, which the call's stale flag records.     *)
(***************************************************************************)
VoteRow(a, u) == [article_id |-> a, user_id |-> u]

\* likes / dislikes: composite unique on (article_id, user_id).
UniquePairFree(rel, a, u) == VoteRow(a, u) \notin rel

\* .delete().eq('article_id', a).eq('user_id', u)
DeleteVote_Skip(rel, a, u, ok) == rel

DeleteVote(rel, a, u, ok) ==
    IF ok THEN {r \in rel : ~(r.article_id = a /\ r.user_id = u)} ELSE rel

\* .select('id').eq('article_id', a).eq('user_id', u).maybeSingle(): whether data is a row
SelectVote_Null(rel, a, u, ok) == FALSE

SelectVote(rel, a, u, ok) ==
    ok /\ Cardinality({r \in rel : r.article_id = a /\ r.user_id = u}) = 1

\* .delete().eq('id', existing.id), existing read from the row of (a, u)
DeleteVoteById(rel, a, u, stale, ok) ==
    IF ok /\ ~stale THEN rel \ {VoteRow(a, u)} ELSE rel

\* .insert([{ article_id: a, user_id: u }])
InsertVote(rel, a, u, ok) ==
    IF ok /\ UniquePairFree(rel, a, u) THEN rel \cup {VoteRow(a, u)} ELSE rel

HasVote(rel, a, u) == \E r \in rel : r.article_id = a /\ r.user_id = u

(***************************************************************************)
(* toggleLike / toggleDislike run to completion: own is the relation of    *)
(* the vote being toggled, opp the opposite one, o the outcomes of the     *)
(* three store calls.  calls counts the store calls issued.                *)
(***************************************************************************)
ToggleVote_KeepOpposite(own, opp, a, u, o) ==
    IF ~IsValidUUID(a)
    THEN [own |-> own, opp |-> opp, ret |-> FALSE, calls |-> 0]
    ELSE IF SelectVote(own, a, u, o[2])
         THEN [own |-> DeleteVoteById(own, a, u, FALSE, o[3]), opp |-> opp,
               ret |-> FALSE, calls |-> 2]
         ELSE [own |-> InsertVote(own, a, u, o[3]), opp |-> opp,
               ret |-> TRUE, calls |-> 2]

ToggleVote(own, opp, a, u, o) ==
    IF ~IsValidUUID(a)
    THEN [own |-> own, opp |-> opp, ret |-> FALSE, calls |-> 0]
    ELSE LET opp1 == DeleteVote(opp, a, u, o[1])
         IN  IF SelectVote(own, a, u, o[2])
             THEN [own |-> DeleteVoteById(own, a, u, FALSE, o[3]), opp |-> opp1,
                   ret |-> FALSE, calls |-> 3]
             ELSE [own |-> InsertVote(own, a, u, o[3]), opp |-> opp1,
                   ret |-> TRUE, calls |-> 3]

\* getLikeCount / getDislikeCount: select('*', { count: 'exact', head: true }); count || 0
GetVoteCount(rel, a, ok) ==
    IF ~IsValidUUID(a)
    THEN [count |-> 0, calls |-> 0]
    ELSE [count |-> IF ok THEN Cardinality({r \in rel : r.article_id = a}) ELSE 0,
          calls |-> 1]

(***************************************************************************)
(* URLs.  The state holds a URL as an index into UrlText, which gives the  *)
(* string as a sequence of lexemes (scheme, host, "/", path segment,       *)
(* blank); normalizeUrl works on that text as the code does on the string. *)
(***************************************************************************)
UrlText ==
    <<  <<"https://", "x.com", "/", "a", "/">>,     \* 1: https://x.com/a/
        <<"http://", "x.com", "/", "a">>,           \* 2: http://x.com/a
        <<"https://", "X.com", "/", "B">>,          \* 3: https://X.com/B
        <<>>  >>                                    \* 4: "" (no url)

UrlIds == DOMAIN UrlText

Schemes == {"http://", "https://"}
Hosts == {"x.com"}

\* String.prototype.toLowerCase, lexeme by lexeme
LowerLexeme(t) ==
    CASE t = "X.com" -> "x.com"
      [] t = "A" -> "a"
      [] t = "B" -> "b"
      [] t = "HTTP://" -> "http://"
      [] t = "HTTPS://" -> "https://"
      [] OTHER -> t

ToLowerCase(s) == [i \in DOMAIN s |-> LowerLexeme(s[i])]

RECURSIVE TrimStart(_)
TrimStart(s) == IF Len(s) > 0 /\ s[1] = " " THEN TrimStart(Tail(s)) ELSE s

RECURSIVE TrimEnd(_)
TrimEnd(s) == IF Len(s) > 0 /\ s[Len(s)] = " " THEN TrimEnd(SubSeq(s, 1, Len(s) - 1)) ELSE s

\* String.prototype.trim
Trim(s) == TrimEnd(TrimStart(s))

\* .replace(/\/$/, ""): one trailing slash removed
StripTrailingSlash(s) ==
    IF Len(s) > 0 /\ s[Len(s)] = "/" THEN SubSeq(s, 1, Len(s) - 1) ELSE s

\* First position of the path that starts the query or the fragment.
PathEnd(t) ==
    IF \E i \in 3..Len(t) : t[i] \in {"?", "#"}
    THEN (CHOOSE i \in 3..Len(t) : t[i] \in {"?", "#"} /\ \A j \in 3..(i - 1) : t[j] \notin {"?", "#"}) - 1
    ELSE Len(t)

\* new URL(url): surrounding blanks are dropped; a string with no scheme and
\* host throws; hostname is lower-cased; an empty path is "/".
ParseUrl(s) ==
    LET t == Trim(s)
    IN  IF Len(t) >= 2 /\ LowerLexeme(t[1]) \in Schemes /\ LowerLexeme(t[2]) \in Hosts
        THEN [ok |-> TRUE,
              hostname |-> <<LowerLexeme(t[2])>>,
              pathname |-> IF PathEnd(t) < 3 THEN <<"/">> ELSE SubSeq(t, 3, PathEnd(t))]
        ELSE [ok |-> FALSE, hostname |-> <<>>, pathname |-> <<>>]

\* articleService.ts normalizeUrl on the text of a URL
NormalizeText_KeepSlash(s) ==
    IF ParseUrl(s).ok
    THEN ToLowerCase(ParseUrl(s).hostname \o ParseUrl(s).pathname)
    ELSE ToLowerCase(Trim(s))

NormalizeText(s) ==
    IF ParseUrl(s).ok
    THEN ToLowerCase(ParseUrl(s).hostname \o StripTrailingSlash(ParseUrl(s).pathname))
    ELSE StripTrailingSlash(ToLowerCase(Trim(s)))

NormalizedKeys == [k \in UrlIds |-> NormalizeText(UrlText[k])]

normalizeUrl(url) == NormalizedKeys[url]

\* if (a.url): the empty string is falsy
HasUrl(url) == UrlText[url] # <<>>

(***************************************************************************)
(* The store's articles relation: rows [id, url, category] in creation     *)
(* order, unique on url; the store assigns the ids.                        *)
(***************************************************************************)
NoRow == [id |-> 0, url |-> 0, category |-> ""]

RowOf(T, url) == CHOOSE i \in DOMAIN T : T[i].url = url

\* .upsert(row, { onConflict: 'url' }).select().single()
Upsert_AlwaysInsert(T, row, ok) ==
    LET inserted == [id |-> Len(T) + 1, url |-> row.url, category |-> row.category]
    IN  [tbl |-> Append(T, inserted), data |-> inserted]

Upsert(T, row, ok) ==
    IF ~ok
    THEN [tbl |-> T, data |-> NoRow]
    ELSE IF \E i \in DOMAIN T : T[i].url = row.url
         THEN LET updated == [id |-> T[RowOf(T, row.url)].id, url |-> row.url,
                              category |-> row.category]
              IN  [tbl |-> [T EXCEPT ![RowOf(T, row.url)] = updated], data |-> updated]
         ELSE LET inserted == [id |-> Len(T) + 1, url |-> row.url, category |-> row.category]
              IN  [tbl |-> Append(T, inserted), data |-> inserted]

\* .from('articles').select('id').eq('url', url).maybeSingle(): data?.id, 0 for none
SelectArticleIdByUrl(T, url, ok) ==
    IF ok /\ \E i \in DOMAIN T : T[i].url = url THEN T[RowOf(T, url)].id ELSE 0

\* (categoryLabel || 'Generale').trim()
TrimLabel(label) == IF label = " Tech " THEN "Tech" ELSE label

CleanCategory(categoryLabel) ==
    TrimLabel(IF categoryLabel = "" THEN "Generale" ELSE categoryLabel)

\* uniqueInputMap: the first article of each normalized key, in input order
RECURSIVE UniqueInput_KeepAll(_, _)
UniqueInput_KeepAll(arts, kept) ==
    IF arts = <<>> THEN kept
    ELSE UniqueInput_KeepAll(Tail(arts),
                             IF HasUrl(Head(arts).url) THEN Append(kept, Head(arts)) ELSE kept)

RECURSIVE UniqueInput(_, _)
UniqueInput(arts, kept) ==
    IF arts = <<>> THEN kept
    ELSE LET a == Head(arts)
             isNew == /\ HasUrl(a.url)
                      /\ ~\E i \in DOMAIN kept : normalizeUrl(kept[i].url) = normalizeUrl(a.url)
         IN  UniqueInput(Tail(arts), IF isNew THEN Append(kept, a) ELSE kept)

\* the loop inside one try block: the first rejected upsert ends it
RECURSIVE SaveLoop_StopOnFailure(_, _, _, _, _, _)
SaveLoop_StopOnFailure(T, uniqueInput, cleanCategory, fails, i, savedArticles) ==
    IF i > Len(uniqueInput) \/ i \in fails
    THEN [tbl |-> T, saved |-> savedArticles, calls |-> Len(uniqueInput)]
    ELSE LET article == uniqueInput[i]
             row == [url |-> article.url,
                     category |-> IF article.category = "" THEN cleanCategory
                                                           ELSE article.category]
             r == Upsert(T, row, TRUE)
         IN  SaveLoop_StopOnFailure(r.tbl, uniqueInput, cleanCategory, fails, i + 1,
                      Append(savedArticles,
                             [id |-> r.data.id, url |-> article.url,
                              category |-> r.data.category]))

\* for (const article of uniqueInput): upsert, push when data came back.
\* fails holds the positions of uniqueInput whose upsert the store rejects.
RECURSIVE SaveLoop(_, _, _, _, _, _)
SaveLoop(T, uniqueInput, cleanCategory, fails, i, savedArticles) ==
    IF i > Len(uniqueInput)
    THEN [tbl |-> T, saved |-> savedArticles, calls |-> Len(uniqueInput)]
    ELSE LET article == uniqueInput[i]
             row == [url |-> article.url,
                     category |-> IF article.category = "" THEN cleanCategory
                                                           ELSE article.category]
             r == Upsert(T, row, i \notin fails)
         IN  SaveLoop(r.tbl, uniqueInput, cleanCategory, fails, i + 1,
                      IF r.data.id # 0
                      THEN Append(savedArticles,
                                  [id |-> r.data.id, url |-> article.url,
                                   category |-> r.data.category])
                      ELSE savedArticles)

\* articleService.ts saveArticles
SaveArticles(T, categoryLabel, arts, fails) ==
    IF Len(arts) = 0
    THEN [tbl |-> T, saved |-> <<>>, calls |-> 0]
    ELSE SaveLoop(T, UniqueInput(arts, <<>>), CleanCategory(categoryLabel), fails, 1, <<>>)

\* ensureArticleSaved handing out the id of a save it does not carry out
EnsureArticleSaved_SkipSave(T, article, okSelect, fails) ==
    IF HasSavedIdShape(article.id)
    THEN [tbl |-> T, ret |-> article.id, calls |-> 0]
    ELSE LET found == SelectArticleIdByUrl(T, article.url, okSelect)
         IN  IF found # 0
             THEN [tbl |-> T, ret |-> found, calls |-> 1]
             ELSE LET r == SaveArticles(T, IF article.category = "" THEN "Generale"
                                                                     ELSE article.category,
                                        <<article>>, fails)
                  IN  [tbl |-> T,
                       ret |-> IF Len(r.saved) > 0 THEN r.saved[1].id ELSE 0,
                       calls |-> 1 + r.calls]

\* useNewsApp.ts ensureArticleSaved
EnsureArticleSaved(T, article, okSelect, fails) ==
    IF HasSavedIdShape(article.id)
    THEN [tbl |-> T, ret |-> article.id, calls |-> 0]
    ELSE LET found == SelectArticleIdByUrl(T, article.url, okSelect)
         IN  IF found # 0
             THEN [tbl |-> T, ret |-> found, calls |-> 1]
             ELSE LET r == SaveArticles(T, IF article.category = "" THEN "Generale"
                                                                     ELSE article.category,
                                        <<article>>, fails)
                  IN  [tbl |-> r.tbl,
                       ret |-> IF Len(r.saved) > 0 THEN r.saved[1].id ELSE 0,
                       calls |-> 1 + r.calls]

\* ArticleDetail ensureSavedId: if (dbId) return dbId
EnsureSavedId(T, article, dbId, fails) ==
    IF dbId # 0 /\ Len(IdText[dbId]) > 0
    THEN [tbl |-> T, ret |-> dbId, calls |-> 0]
    ELSE LET r == SaveArticles(T, IF article.category = "" THEN "Generale"
                                                            ELSE article.category,
                               <<article>>, fails)
         IN  [tbl |-> r.tbl,
              ret |-> IF Len(r.saved) > 0 THEN r.saved[1].id ELSE 0,
              calls |-> r.calls]

NoArticleCall ==
    [op |-> "none", label |-> "", batch |-> <<>>, saved |-> <<>>, ret |-> 0,
     calls |-> 0, nBefore |-> 0]

AllOk == <<TRUE, TRUE, TRUE>>
Outcomes == [1..3 -> BOOLEAN]

NoCall == [op |-> "none", a |-> 0, u |-> 0, ret |-> FALSE, count |-> 0, calls |-> 0]

Idle == [pc |-> "idle", op |-> "none", a |-> 0, u |-> 0, existing |-> FALSE, stale |-> FALSE]

\* An absent likeCount / dislikeCount (undefined) is held as -1.
NoCount == -1

\* null / no article; url 0 is no string at all
NoArticle == [id |-> 0, url |-> 0, category |-> "", likeCount |-> NoCount, dislikeCount |-> NoCount]

UrlParts ==
    [lead : BOOLEAN, scheme : {"", "http://", "https://"}, host : {"x.com", "X.com", "x y"},
     path : {<<>>, <<"/", "a">>, <<"/", "A", "/", "b">>},
     query : BOOLEAN, slash : BOOLEAN, trail : BOOLEAN]

NoNormalizeCall ==
    [parts |-> [lead |-> FALSE, scheme |-> "", host |-> "x.com", path |-> <<>>,
                query |-> FALSE, slash |-> FALSE, trail |-> FALSE],
     url |-> <<>>, key |-> <<>>, done |-> FALSE]

NoGesture == [op |-> "none", article |-> NoArticle, target |-> 0, calls |-> 0, writes |-> 0]

NotResolving ==
    [pc |-> "idle", kind |-> "none", article |-> NoArticle, ret |-> 0, wrote |-> FALSE]

NoEnrichCall ==
    [op |-> "none", list |-> <<>>, okLikes |-> TRUE, okDislikes |-> TRUE,
     result |-> <<>>, reads |-> <<>>, done |-> FALSE]

NoCommentCall == [op |-> "none", commentId |-> 0, user |-> 0, author |-> 0]

NoLedgerCall ==
    [op |-> "none", articleId |-> 0, user |-> 0, threw |-> "none", calls |-> <<>>,
     before |-> [comments |-> {}, users |-> {}], list |-> <<>>]

VoteInit ==
    /\ likes = {}
    /\ dislikes = {}
    /\ hist = <<>>
    /\ last = NoCall
    /\ inflight = [c \in 1..MaxCalls |-> Idle]

ArtInit ==
    /\ articlesTable = <<>>
    /\ alast = NoArticleCall

HookInit ==
    /\ favorites = {}
    /\ currentUser = 0
    /\ articles = <<>>
    /\ selectedArticle = NoArticle
    /\ favoriteArticleIds = {}
    /\ showLoginModal = FALSE
    /\ glast = NoGesture

DetailInit ==
    /\ commentsTable = {}
    /\ comments = <<>>
    /\ clast = NoCommentCall

LedgerInit ==
    /\ users = {}
    /\ klast = NoLedgerCall

NoFavoriteCall ==
    [op |-> "none", a |-> 0, u |-> 0, ok |-> TRUE, ret |-> FALSE, calls |-> 0, before |-> {}]

NoCacheCall == [label |-> "", ok |-> TRUE, result |-> <<>>, done |-> FALSE]

NoSaveCall ==
    [label |-> "", batch |-> <<>>, fails |-> {}, before |-> <<>>, saved |-> <<>>,
     done |-> FALSE]

MaxHandlers == 2    \* session-event handlers that may be in flight together

NoHandler == [pc |-> "idle", kind |-> "none", user |-> 0, ids |-> {}]

NoAuthEvent == [event |-> "none", user |-> 0]

\* No session, no handler in flight.
SessInit ==
    /\ session = 0
    /\ authFlow = [h \in 1..MaxHandlers |-> NoHandler]
    /\ authLast = NoAuthEvent

MaxGestures == 2    \* vote gestures issued, which may be in flight together

NoGestureFlow ==
    [pc |-> "idle", op |-> "none", article |-> NoArticle, target |-> 0,
     nLike |-> NoCount, nDislike |-> NoCount]

GestInit == gflow = [g \in 1..MaxGestures |-> NoGestureFlow]

\* The dependencies of ArticleDetail's init effect; NoDeps before its first run.
NoDeps == [url |-> 0, id |-> 0, user |-> -1]

\* ArticleDetail not mounted: useState(false), useState(false), no dbId
NoDetail == [dbId |-> 0, userHasLiked |-> FALSE, userHasDisliked |-> FALSE, deps |-> NoDeps]

MaxFetches == 3     \* list loads started, which may be in flight together

\* A list load that has not started
NoFetch ==
    [pc |-> "idle", kind |-> "none", label |-> "", forceAi |-> FALSE, isMounted |-> FALSE,
     list |-> <<>>, wrote |-> FALSE]

\* useNewsApp after mount: showFavoritesOnly false, currentRequestMode 'news', no
\* active category, no load started; shown is the load that last set the list
NoFeed ==
    [showFavoritesOnly |-> FALSE, currentRequestMode |-> "news", label |-> "",
     flows |-> [f \in 1..MaxFetches |-> NoFetch], shown |-> 0]

ExtInit ==
    /\ GestInit
    /\ detail = NoDetail
    /\ feed = NoFeed
    /\ LedgerInit
    /\ flast = NoFavoriteCall
    /\ cached = NoCacheCall
    /\ slast = NoSaveCall
    /\ SessInit

Init ==
    /\ ExtInit
    /\ VoteInit
    /\ ArtInit
    /\ nlast = NoNormalizeCall
    /\ HookInit
    /\ resolving = [c \in 1..MaxCalls |-> NotResolving]
    /\ elast = NoEnrichCall
    /\ DetailInit

(***************************************************************************)
(* Spec: vote calls on durable article ids, each run to completion before  *)
(* the next starts, every store call taking effect.                        *)
(***************************************************************************)
Remember(h, e) == IF Len(h) < 3 THEN Append(h, e) ELSE Append(Tail(h), e)

Entry(op, a, u, ret) ==
    [op |-> op, a |-> a, u |-> u, ret |-> ret,
     hadLike |-> HasVote(likes, a, u), hadDislike |-> HasVote(dislikes, a, u),
     likeBefore |-> GetVoteCount(likes, a, TRUE).count,
     dislikeBefore |-> GetVoteCount(dislikes, a, TRUE).count]

toggleLike(a, u) ==
    LET r == ToggleVote(likes, dislikes, a, u, AllOk)
    IN  /\ likes' = r.own
        /\ dislikes' = r.opp
        /\ hist' = Remember(hist, Entry("toggleLike", a, u, r.ret))
        /\ UNCHANGED <<last, inflight, articlesTable, alast, appVars>>

toggleDislike(a, u) ==
    LET r == ToggleVote(dislikes, likes, a, u, AllOk)
    IN  /\ dislikes' = r.own
        /\ likes' = r.opp
        /\ hist' = Remember(hist, Entry("toggleDislike", a, u, r.ret))
        /\ UNCHANGED <<last, inflight, articlesTable, alast, appVars>>

\* The voters are the first and the last user.
Next ==
    \E a \in ArticleIds, u \in {1, NumUsers} :
        \/ toggleLike(a, u)
        \/ toggleDislike(a, u)

Spec == Init /\ [][Next]_vars

(***************************************************************************)
(* Claims checked under Spec.                                              *)
(***************************************************************************)
LikeCountNow(a) == GetVoteCount(likes, a, TRUE).count
DislikeCountNow(a) == GetVoteCount(dislikes, a, TRUE).count

\* C1: after any sequence of toggleLike / toggleDislike calls on durable
\* article ids, each run to completion before the next starts, no
\* (articleId, userId) pair holds both a like row and a dislike row.
C1_AtMostOneVote ==
    \A a \in ArticleIds, u \in Users : ~(HasVote(likes, a, u) /\ HasVote(dislikes, a, u))

\* The case of C1: a like was replaced by a dislike of the same pair.
C1_Witness ==
    /\ Len(hist) >= 2
    /\ LET e == hist[Len(hist)]
       IN  /\ e.op = "toggleDislike"
           /\ e.hadLike
           /\ HasVote(dislikes, e.a, e.u)
           /\ ~HasVote(likes, e.a, e.u)

\* The last two calls are the same operation on the same pair.
SamePairTwice(op) ==
    /\ Len(hist) >= 2
    /\ hist[Len(hist) - 1].op = op
    /\ hist[Len(hist)].op = op
    /\ hist[Len(hist) - 1].a = hist[Len(hist)].a
    /\ hist[Len(hist) - 1].u = hist[Len(hist)].u

FreshBefore(e) == ~e.hadLike /\ ~e.hadDislike

\* C3: on a pair with neither vote, two consecutive toggleLike calls return
\* true then false, leave the pair with neither vote and the like count of
\* the article at its value before the first call; the same for
\* toggleDislike and the dislike count.
C3_ToggleTwice ==
    /\ (SamePairTwice("toggleLike") /\ FreshBefore(hist[Len(hist) - 1])) =>
          LET e1 == hist[Len(hist) - 1]
              e2 == hist[Len(hist)]
          IN  /\ e1.ret = TRUE
              /\ e2.ret = FALSE
              /\ ~HasVote(likes, e2.a, e2.u)
              /\ ~HasVote(dislikes, e2.a, e2.u)
              /\ e2.likeBefore = e1.likeBefore + 1
              /\ LikeCountNow(e2.a) = e1.likeBefore
    /\ (SamePairTwice("toggleDislike") /\ FreshBefore(hist[Len(hist) - 1])) =>
          LET e1 == hist[Len(hist) - 1]
              e2 == hist[Len(hist)]
          IN  /\ e1.ret = TRUE
              /\ e2.ret = FALSE
              /\ ~HasVote(likes, e2.a, e2.u)
              /\ ~HasVote(dislikes, e2.a, e2.u)
              /\ e2.dislikeBefore = e1.dislikeBefore + 1
              /\ DislikeCountNow(e2.a) = e1.dislikeBefore

\* The case of C3: two toggleLike calls on a fresh pair of an article another user likes.
C3_Witness ==
    /\ SamePairTwice("toggleLike")
    /\ FreshBefore(hist[Len(hist) - 1])
    /\ hist[Len(hist) - 1].likeBefore = 1
    /\ LikeCountNow(hist[Len(hist)].a) = 1

\* C4: with a like of U on A active, toggleDislike(A, U) removes the like and
\* adds the dislike (like count minus one, dislike count plus one) and a
\* further toggleDislike(A, U) leaves neither vote; symmetrically for
\* toggleLike over an active dislike; from counts (0, 0) the calls like,
\* dislike, dislike by U give counts (1, 0), (0, 1), (0, 0).
C4_SwitchVote ==
    /\ (Len(hist) >= 1 /\ hist[Len(hist)].op = "toggleDislike" /\ hist[Len(hist)].hadLike) =>
          LET e == hist[Len(hist)]
          IN  /\ e.ret = TRUE
              /\ ~HasVote(likes, e.a, e.u)
              /\ HasVote(dislikes, e.a, e.u)
              /\ LikeCountNow(e.a) = e.likeBefore - 1
              /\ DislikeCountNow(e.a) = e.dislikeBefore + 1
    /\ (Len(hist) >= 1 /\ hist[Len(hist)].op = "toggleLike" /\ hist[Len(hist)].hadDislike) =>
          LET e == hist[Len(hist)]
          IN  /\ e.ret = TRUE
              /\ HasVote(likes, e.a, e.u)
              /\ ~HasVote(dislikes, e.a, e.u)
              /\ LikeCountNow(e.a) = e.likeBefore + 1
              /\ DislikeCountNow(e.a) = e.dislikeBefore - 1
    /\ (SamePairTwice("toggleDislike") /\ hist[Len(hist) - 1].hadLike) =>
          /\ hist[Len(hist)].ret = FALSE
          /\ ~HasVote(likes, hist[Len(hist)].a, hist[Len(hist)].u)
          /\ ~HasVote(dislikes, hist[Len(hist)].a, hist[Len(hist)].u)
    /\ (SamePairTwice("toggleLike") /\ hist[Len(hist) - 1].hadDislike) =>
          /\ hist[Len(hist)].ret = FALSE
          /\ ~HasVote(likes, hist[Len(hist)].a, hist[Len(hist)].u)
          /\ ~HasVote(dislikes, hist[Len(hist)].a, hist[Len(hist)].u)
    /\ (/\ Len(hist) = 3
        /\ hist[1].op = "toggleLike"
        /\ SamePairTwice("toggleDislike")
        /\ hist[1].a = hist[3].a
        /\ hist[1].u = hist[3].u
        /\ hist[1].likeBefore = 0
        /\ hist[1].dislikeBefore = 0) =>
          /\ hist[2].likeBefore = 1 /\ hist[2].dislikeBefore = 0
          /\ hist[3].likeBefore = 0 /\ hist[3].dislikeBefore = 1
          /\ LikeCountNow(hist[3].a) = 0 /\ DislikeCountNow(hist[3].a) = 0

\* The case of C4: like, dislike, dislike by one user on an article with no votes.
C4_Witness ==
    /\ Len(hist) = 3
    /\ hist[1].op = "toggleLike"
    /\ SamePairTwice("toggleDislike")
    /\ hist[1].a = hist[3].a
    /\ hist[1].u = hist[3].u
    /\ hist[1].likeBefore = 0
    /\ hist[1].dislikeBefore = 0
    /\ hist[2].hadLike

(***************************************************************************)
(* SpecAnyId and SpecErr: engagement-store calls run to completion one     *)
(* after another, on any identifier a caller may pass.  Under SpecAnyId    *)
(* every store call takes effect; under SpecErr each store call takes      *)
(* effect or is rejected.                                                  *)
(***************************************************************************)
IdInputs == ArticleIds \cup BadIds \cup {0}

toggleLikeCall(a, u, o) ==
    LET r == ToggleVote(likes, dislikes, a, u, o)
    IN  /\ likes' = r.own
        /\ dislikes' = r.opp
        /\ last' = [op |-> "toggleLike", a |-> a, u |-> u, ret |-> r.ret,
                    count |-> 0, calls |-> r.calls]
        /\ UNCHANGED <<hist, inflight, articlesTable, alast, appVars>>

toggleDislikeCall(a, u, o) ==
    LET r == ToggleVote(dislikes, likes, a, u, o)
    IN  /\ dislikes' = r.own
        /\ likes' = r.opp
        /\ last' = [op |-> "toggleDislike", a |-> a, u |-> u, ret |-> r.ret,
                    count |-> 0, calls |-> r.calls]
        /\ UNCHANGED <<hist, inflight, articlesTable, alast, appVars>>

getLikeCount(a, ok) ==
    LET r == GetVoteCount(likes, a, ok)
    IN  /\ last' = [op |-> "getLikeCount", a |-> a, u |-> 0, ret |-> FALSE,
                    count |-> r.count, calls |-> r.calls]
        /\ UNCHANGED <<likes, dislikes, hist, inflight, articlesTable, alast, appVars>>

getDislikeCount(a, ok) ==
    LET r == GetVoteCount(dislikes, a, ok)
    IN  /\ last' = [op |-> "getDislikeCount", a |-> a, u |-> 0, ret |-> FALSE,
                    count |-> r.count, calls |-> r.calls]
        /\ UNCHANGED <<likes, dislikes, hist, inflight, articlesTable, alast, appVars>>

NextAnyId ==
    \E a \in IdInputs :
        \/ \E u \in Users : toggleLikeCall(a, u, AllOk)
        \/ \E u \in Users : toggleDislikeCall(a, u, AllOk)
        \/ getLikeCount(a, TRUE)
        \/ getDislikeCount(a, TRUE)

SpecAnyId == Init /\ [][NextAnyId]_vars

NextErr ==
    \E a \in ArticleIds :
        \/ \E u \in Users, o \in Outcomes : toggleLikeCall(a, u, o)
        \/ \E u \in Users, o \in Outcomes : toggleDislikeCall(a, u, o)
        \/ \E ok \in BOOLEAN : getLikeCount(a, ok)
        \/ \E ok \in BOOLEAN : getDislikeCount(a, ok)

SpecErr == Init /\ [][NextErr]_vars

\* C5: the boolean toggleLike returns on a durable-shaped id equals whether
\* the like row of the pair exists when the call returns, whatever the
\* outcome of its store calls; likewise toggleDislike and the dislike row.
C5_ReturnIsMembership ==
    /\ (last.op = "toggleLike" /\ IsValidUUID(last.a)) =>
          (last.ret = HasVote(likes, last.a, last.u))
    /\ (last.op = "toggleDislike" /\ IsValidUUID(last.a)) =>
          (last.ret = HasVote(dislikes, last.a, last.u))

\* C6: on an article id that fails the shape check, toggleLike and
\* toggleDislike return false and getLikeCount and getDislikeCount return 0,
\* each issuing no store call and leaving likes and dislikes as they were.
C6_InvalidIdNoStoreCall ==
    [][(last'.op # "none" /\ ~MatchesUuidRegex(IdText[last'.a])) =>
          /\ last'.ret = FALSE
          /\ last'.count = 0
          /\ last'.calls = 0
          /\ likes' = likes
          /\ dislikes' = dislikes]_vars

\* The case of C6: a toggle on 36 hexadecimal digits without hyphens, over a
\* store that holds votes.
C6_Witness ==
    /\ last.op = "toggleLike"
    /\ last.a = -2
    /\ last.calls = 0
    /\ likes # {}
    /\ dislikes # {}

(***************************************************************************)
(* SpecConc: vote calls in flight together, interleaving at their store    *)
(* calls (the awaits of toggleLike / toggleDislike).                       *)
(***************************************************************************)
Calls == 1..MaxCalls

\* Calls whose remembered row id belongs to the row of (a, u) in relation op
\* lose it when that row is deleted.
MarkStale(f, op, a, u, removed) ==
    [c \in DOMAIN f |->
        IF removed /\ f[c].existing /\ f[c].op = op /\ f[c].a = a /\ f[c].u = u
        THEN [f[c] EXCEPT !.stale = TRUE]
        ELSE f[c]]

OppositeOf(op) == IF op = "toggleLike" THEN "toggleDislike" ELSE "toggleLike"

\* The call is made: the shape check, then the first await.
BeginToggle(c, op, a, u) ==
    /\ inflight[c].pc = "idle"
    /\ inflight' = [inflight EXCEPT ![c] =
                       IF ~IsValidUUID(a) THEN Idle
                       ELSE [pc |-> "deleteOpposite", op |-> op, a |-> a, u |-> u,
                             existing |-> FALSE, stale |-> FALSE]]
    /\ UNCHANGED <<likes, dislikes, hist, last, articlesTable, alast, appVars>>

\* await supabase.from(<opposite>).delete().eq('article_id', ..).eq('user_id', ..)
DeleteOpposite(c) ==
    LET f == inflight[c]
        g == [inflight EXCEPT ![c].pc = "selectOwn"]
    IN  /\ f.pc = "deleteOpposite"
        /\ IF f.op = "toggleLike"
           THEN /\ dislikes' = DeleteVote(dislikes, f.a, f.u, TRUE)
                /\ likes' = likes
                /\ inflight' = MarkStale(g, "toggleDislike", f.a, f.u,
                                         HasVote(dislikes, f.a, f.u))
           ELSE /\ likes' = DeleteVote(likes, f.a, f.u, TRUE)
                /\ dislikes' = dislikes
                /\ inflight' = MarkStale(g, "toggleLike", f.a, f.u,
                                         HasVote(likes, f.a, f.u))
        /\ UNCHANGED <<hist, last, articlesTable, alast, appVars>>

\* const { data: existing } = await supabase.from(<own>).select('id')...maybeSingle()
SelectOwn(c) ==
    LET f == inflight[c]
        own == IF f.op = "toggleLike" THEN likes ELSE dislikes
    IN  /\ f.pc = "selectOwn"
        /\ inflight' = [inflight EXCEPT ![c].pc = "writeOwn",
                                        ![c].existing = SelectVote(own, f.a, f.u, TRUE)]
        /\ UNCHANGED <<likes, dislikes, hist, last, articlesTable, alast, appVars>>

\* if (existing) delete by id, return false; else insert, return true
WriteOwn(c) ==
    LET f == inflight[c]
        own == IF f.op = "toggleLike" THEN likes ELSE dislikes
        own1 == IF f.existing THEN DeleteVoteById(own, f.a, f.u, f.stale, TRUE)
                              ELSE InsertVote(own, f.a, f.u, TRUE)
        g == [inflight EXCEPT ![c] = Idle]
    IN  /\ f.pc = "writeOwn"
        /\ IF f.op = "toggleLike"
           THEN likes' = own1 /\ dislikes' = dislikes
           ELSE dislikes' = own1 /\ likes' = likes
        /\ inflight' = MarkStale(g, f.op, f.a, f.u,
                                 f.existing /\ ~f.stale /\ HasVote(own, f.a, f.u))
        /\ UNCHANGED <<hist, last, articlesTable, alast, appVars>>

NextConc ==
    \E c \in Calls :
        \/ \E a \in ArticleIds, u \in Users : BeginToggle(c, "toggleLike", a, u)
        \/ \E a \in ArticleIds, u \in Users : BeginToggle(c, "toggleDislike", a, u)
        \/ DeleteOpposite(c)
        \/ SelectOwn(c)
        \/ WriteOwn(c)

SpecConc == Init /\ [][NextConc]_vars

\* C2: in every reachable state, calls in flight together included, no
\* (articleId, userId) pair has a row in both likes and dislikes.
C2_NeverBothVotes == likes \cap dislikes = {}

(***************************************************************************)
(* SpecArt: saveArticles and the identity resolvers, each call run to      *)
(* completion before the next, every store call taking effect.             *)
(***************************************************************************)
Labels == {"", " Tech "}
Categories == {"", "Tech"}

\* Articles as the generator returns them: no id.
GeneratedArticles == [id : {0}, url : UrlIds, category : {""}]

\* Articles as read back from the store: a row's id, url and category.
StoredArticles(T) == {T[i] : i \in DOMAIN T}

Batches == UNION {[1..n -> GeneratedArticles] : n \in 0..MaxBatch}

saveArticles(categoryLabel, arts) ==
    LET r == SaveArticles(articlesTable, categoryLabel, arts, {})
    IN  /\ articlesTable' = r.tbl
        /\ alast' = [op |-> "saveArticles", label |-> categoryLabel, batch |-> arts,
                     saved |-> r.saved, ret |-> 0, calls |-> r.calls,
                     nBefore |-> Len(articlesTable)]
        /\ UNCHANGED <<likes, dislikes, hist, last, inflight, appVars>>

ensureArticleSaved(article) ==
    LET r == EnsureArticleSaved(articlesTable, article, TRUE, {})
    IN  /\ articlesTable' = r.tbl
        /\ alast' = [op |-> "ensureArticleSaved", label |-> "", batch |-> <<article>>,
                     saved |-> <<>>, ret |-> r.ret, calls |-> r.calls,
                     nBefore |-> Len(articlesTable)]
        /\ UNCHANGED <<likes, dislikes, hist, last, inflight, appVars>>

\* dbId is what the detail view's init effect left: the article's id, or the
\* id found by url when the view opened, or nothing.
ensureSavedId(article, dbId) ==
    LET r == EnsureSavedId(articlesTable, article, dbId, {})
    IN  /\ dbId \in IF article.id # 0 THEN {article.id}
                    ELSE {0, SelectArticleIdByUrl(articlesTable, article.url, TRUE)}
        /\ articlesTable' = r.tbl
        /\ alast' = [op |-> "ensureSavedId", label |-> "", batch |-> <<article>>,
                     saved |-> <<>>, ret |-> r.ret, calls |-> r.calls,
                     nBefore |-> Len(articlesTable)]
        /\ UNCHANGED <<likes, dislikes, hist, last, inflight, appVars>>

\* Articles handed to a resolver: without id, or with an id that is no uuid.
ResolverInputs == [id : {0, -2, -5}, url : UrlIds, category : Categories]

NextArt ==
    \/ \E categoryLabel \in Labels, arts \in Batches : saveArticles(categoryLabel, arts)
    \/ \E article \in ResolverInputs \cup StoredArticles(articlesTable) :
          ensureArticleSaved(article)
    \/ \E article \in ResolverInputs \cup StoredArticles(articlesTable),
          dbId \in 0..Len(articlesTable) :
          ensureSavedId(article, dbId)

SpecArt == Init /\ [][NextArt]_vars

\* C7: after any sequence of saveArticles calls and identity resolutions the
\* articles relation never holds two rows with equal normalized URLs.
C7_UniqueNormalizedUrl ==
    \A i, j \in DOMAIN articlesTable :
        i # j => normalizeUrl(articlesTable[i].url) # normalizeUrl(articlesTable[j].url)

\* Rows are only appended or updated in place, so the rows that existed
\* before the last call are the first alast.nBefore rows.
ExistedBefore(i) == i \in 1..alast.nBefore

\* C8: ensureArticleSaved on an article without id whose normalized URL
\* equals that of a row already in the store returns that row's id and
\* leaves the number of rows unchanged.
C8_ResolveExistingByNormalizedUrl ==
    (/\ alast.op = "ensureArticleSaved"
     /\ alast.batch[1].id = 0
     /\ \E i \in DOMAIN articlesTable :
           /\ ExistedBefore(i)
           /\ normalizeUrl(articlesTable[i].url) = normalizeUrl(alast.batch[1].url)) =>
        /\ Len(articlesTable) = alast.nBefore
        /\ \E i \in DOMAIN articlesTable :
              /\ ExistedBefore(i)
              /\ normalizeUrl(articlesTable[i].url) = normalizeUrl(alast.batch[1].url)
              /\ alast.ret = articlesTable[i].id

\* C9: ensureArticleSaved on an article that carries a durable id returns
\* that id and issues no store read or write.
C9_DurableIdNoStoreCall ==
    [][(alast'.op = "ensureArticleSaved" /\ MatchesUuidRegex(IdText[alast'.batch[1].id])) =>
          /\ alast'.ret = alast'.batch[1].id
          /\ alast'.calls = 0
          /\ articlesTable' = articlesTable]_vars

\* The case of C9: an article read back from the store is resolved again.
C9_Witness ==
    /\ alast.op = "ensureArticleSaved"
    /\ alast.batch[1].id > 0
    /\ alast.batch[1] \in StoredArticles(articlesTable)
    /\ alast.ret = alast.batch[1].id
    /\ Len(articlesTable) >= 2

\* The first article of the batch that has normalized key k.
FirstWithKey(arts, k, withUrl) ==
    CHOOSE i \in DOMAIN arts :
        /\ normalizeUrl(arts[i].url) = k
        /\ withUrl => HasUrl(arts[i].url)
        /\ \A j \in 1..(i - 1) :
              ~(normalizeUrl(arts[j].url) = k /\ (withUrl => HasUrl(arts[j].url)))

KeysOf(arts, withUrl) ==
    {normalizeUrl(arts[i].url) : i \in {j \in DOMAIN arts : withUrl => HasUrl(arts[j].url)}}

OneRowPerKey(arts, withUrl) ==
    /\ Len(articlesTable) = Cardinality(KeysOf(arts, withUrl))
    /\ \A k \in KeysOf(arts, withUrl) :
          \E i \in DOMAIN articlesTable :
              articlesTable[i].url = arts[FirstWithKey(arts, k, withUrl)].url
    /\ (arts = <<[id |-> 0, url |-> 1, category |-> ""], [id |-> 0, url |-> 2, category |-> ""]>>) =>
          /\ Len(articlesTable) = 1
          /\ normalizeUrl(articlesTable[1].url) = <<"x.com", "/", "a">>

\* C10 as stated: saveArticles on an empty store persists as many rows as
\* the batch has distinct normalized URLs, the first article of each key in
\* input order being the one persisted.
C10_OneRowPerKey_AnyBatch ==
    (alast.op = "saveArticles" /\ alast.nBefore = 0) => OneRowPerKey(alast.batch, FALSE)

\* C10 amended: saveArticles on an empty store persists as many rows as the
\* batch's articles with a non-empty url have distinct normalized URLs, the
\* first such article of each key in input order being the one persisted;
\* https://x.com/a/ followed by http://x.com/a gives one row of key x.com/a.
C10_OneRowPerKey ==
    (alast.op = "saveArticles" /\ alast.nBefore = 0) => OneRowPerKey(alast.batch, TRUE)

\* The case of C10: the batch https://x.com/a/, http://x.com/a on an empty store.
C10_Witness ==
    /\ alast.op = "saveArticles"
    /\ alast.nBefore = 0
    /\ Len(alast.batch) = 2
    /\ alast.batch[1].url = 1
    /\ alast.batch[2].url = 2
    /\ Len(articlesTable) = 1
    /\ articlesTable[1].url = 1

(***************************************************************************)
(* SpecNorm: normalizeUrl applied to a string.  The string is put together *)
(* from its parts: blanks around it, scheme, host, path, query and one     *)
(* trailing slash; a string without scheme, or with a host that holds a    *)
(* blank, is one that new URL() rejects.                                   *)
(***************************************************************************)
UrlOf(p) ==
    (IF p.lead THEN <<" ">> ELSE <<>>)
        \o (IF p.scheme = "" THEN <<>> ELSE <<p.scheme>>)
        \o <<p.host>> \o p.path
        \o (IF p.query THEN <<"?", "q">> ELSE <<>>)
        \o (IF p.slash THEN <<"/">> ELSE <<>>)
        \o (IF p.trail THEN <<" ">> ELSE <<>>)

InitNorm ==
    /\ ExtInit
    /\ VoteInit
    /\ ArtInit
    /\ \E p \in UrlParts : nlast = [parts |-> p, url |-> UrlOf(p), key |-> <<>>, done |-> FALSE]
    /\ HookInit
    /\ resolving = [c \in 1..MaxCalls |-> NotResolving]
    /\ elast = NoEnrichCall
    /\ DetailInit

NormalizeCall ==
    /\ ~nlast.done
    /\ nlast' = [nlast EXCEPT !.key = NormalizeText(nlast.url), !.done = TRUE]
    /\ UNCHANGED <<voteVars, artVars, favorites, hookVars, resolving, elast, detailVars,
                   extVars>>

NextNorm == NormalizeCall

SpecNorm == InitNorm /\ [][NextNorm]_vars

\* The lexemes a key is made of.
KeyLexemes == {" ", "http://", "https://", "x.com", "x y", "/", "a", "b", "?", "q"}

\* q differs from p in nothing but the scheme (http vs https, both strings
\* being URLs) and / or the trailing slash.
DifferOnlyInSchemeOrSlash(p, q) ==
    /\ q.lead = p.lead /\ q.host = p.host /\ q.path = p.path
    /\ q.query = p.query /\ q.trail = p.trail
    /\ \/ q.scheme = p.scheme
       \/ /\ {p.scheme, q.scheme} = Schemes
          /\ ParseUrl(UrlOf(p)).ok
          /\ ParseUrl(UrlOf(q)).ok

\* C11: normalizeUrl returns a key for every input string, the fallback
\* (trim, lower-case, strip one trailing slash) for a string that is no URL,
\* the same key when applied again to the same input, and the same key for
\* every URL that differs from the input only in scheme (http vs https)
\* and / or in one trailing slash.
C11_SchemeAndSlashInsensitive ==
    nlast.done =>
        /\ nlast.key \in Seq(KeyLexemes)
        /\ NormalizeText(nlast.url) = nlast.key
        /\ ~ParseUrl(nlast.url).ok =>
              nlast.key = StripTrailingSlash(ToLowerCase(Trim(nlast.url)))
        /\ \A q \in UrlParts :
              DifferOnlyInSchemeOrSlash(nlast.parts, q) => NormalizeText(UrlOf(q)) = nlast.key

\* The case of C11: https://X.com/A/b/ has the key of http://X.com/A/b.
C11_Witness ==
    /\ nlast.done
    /\ nlast.url = <<"https://", "X.com", "/", "A", "/", "b", "/">>
    /\ nlast.key = <<"x.com", "/", "a", "/", "b">>
    /\ NormalizeText(<<"http://", "X.com", "/", "A", "/", "b">>) = nlast.key

(***************************************************************************)
(* The favorites relation and the useNewsApp gestures.  A gesture runs to  *)
(* completion; okSelect and fails are the outcomes of the resolver's store *)
(* calls, okFav that of the favorite insert or delete, the vote calls take *)
(* effect.  calls counts the store calls a gesture issued, writes the      *)
(* toggle / favorite insert / favorite delete calls it made.               *)
(***************************************************************************)
MaxList == 2        \* longest article list held by the view

\* The id the store gives a new favorites row: one no row carries.
FreshRowId(rel) ==
    CHOOSE k \in 1..(Cardinality(rel) + 1) :
        /\ \A r \in rel : r.id # k
        /\ \A j \in 1..(k - 1) : \E r \in rel : r.id = j

\* .insert([{ article_id, user_id }]) on favorites (composite unique on the
\* pair): the error the store answers with, "none" for no error
InsertFavorite(rel, a, u, ok) ==
    IF ~ok THEN [rel |-> rel, error |-> "other"]
    ELSE IF HasVote(rel, a, u) THEN [rel |-> rel, error |-> "23505"]
    ELSE [rel |-> rel \cup {[id |-> FreshRowId(rel), article_id |-> a, user_id |-> u]},
          error |-> "none"]

\* addFavorite returning !error only
AddFavorite_DuplicateIsError(rel, a, u, ok) ==
    IF ~IsValidUUID(a) \/ u = 0
    THEN [rel |-> rel, ret |-> FALSE, calls |-> 0]
    ELSE LET ins == InsertFavorite(rel, a, u, ok)
         IN  [rel |-> ins.rel, ret |-> ins.error = "none", calls |-> 1]

\* favoriteService.ts addFavorite: !error || error.code === '23505'
AddFavorite(rel, a, u, ok) ==
    IF ~IsValidUUID(a) \/ u = 0
    THEN [rel |-> rel, ret |-> FALSE, calls |-> 0]
    ELSE LET ins == InsertFavorite(rel, a, u, ok)
         IN  [rel |-> ins.rel, ret |-> ins.error = "none" \/ ins.error = "23505",
              calls |-> 1]

\* favoriteService.ts removeFavorite
RemoveFavorite(rel, a, u, ok) ==
    IF ~IsValidUUID(a) \/ u = 0
    THEN [rel |-> rel, ret |-> FALSE, calls |-> 0]
    ELSE [rel |-> DeleteVote(rel, a, u, ok), ret |-> ok, calls |-> 1]

\* a.id === updated.id || a.url === updated.url
MatchesUpdate_IdOnly(a, updated) == a.id = updated.id

MatchesUpdate(a, updated) == a.id = updated.id \/ a.url = updated.url

\* Whether the object has the property: a count of NoCount is a missing key.
HasKey(obj, f) ==
    /\ f \in DOMAIN obj
    /\ f \in {"likeCount", "dislikeCount"} => obj[f] # NoCount

\* { ...a, ...updated }: every property of updated replaces a's
MergeArticle(a, updated) ==
    [f \in DOMAIN a \cup DOMAIN updated |-> IF HasKey(updated, f) THEN updated[f] ELSE a[f]]

\* useNewsApp.ts handleArticleUpdate
HandleArticleUpdate(list, selected, updated) ==
    [articles |-> [i \in DOMAIN list |->
                      IF MatchesUpdate(list[i], updated) THEN MergeArticle(list[i], updated)
                                                         ELSE list[i]],
     selectedArticle |-> IF selected # NoArticle /\ MatchesUpdate(selected, updated)
                         THEN MergeArticle(selected, updated)
                         ELSE selected]

\* if (!currentUser) return setShowLoginModal(true)
RequiresLogin_Never(user) == FALSE

RequiresLogin(user) == user = 0

\* if (!targetId) return
ResolutionFailed_Never(targetId) == FALSE

ResolutionFailed(targetId) == targetId = 0

Gestures == {"handleLike", "handleDislike", "handleToggleFavorite"}

\* The articles a gesture can be invoked on: those the view holds.
Held == {articles[i] : i \in DOMAIN articles} \cup ({selectedArticle} \ {NoArticle})

LoginPrompt(op, article) ==
    /\ showLoginModal' = TRUE
    /\ glast' = [op |-> op, article |-> article, target |-> 0, calls |-> 0, writes |-> 0]
    /\ UNCHANGED <<voteVars, artVars, nlast, favorites, currentUser, articles,
                   selectedArticle, favoriteArticleIds, resolving, elast, detailVars,
                   extVars>>

\* handleLike / handleDislike past the login check.  Each awaited result is
\* bound once, in the order the handler obtains it.
VoteGesture(op, article, okSelect, fails) ==
    \E r \in {EnsureArticleSaved(articlesTable, article, okSelect, fails)} :
    \E t \in {IF op = "handleLike"
              THEN ToggleVote(likes, dislikes, r.ret, currentUser, AllOk)
              ELSE ToggleVote(dislikes, likes, r.ret, currentUser, AllOk)} :
    \E likes1 \in {IF op = "handleLike" THEN t.own ELSE t.opp},
       dislikes1 \in {IF op = "handleLike" THEN t.opp ELSE t.own} :
    \E nLike \in {GetVoteCount(likes1, r.ret, TRUE)},
       nDislike \in {GetVoteCount(dislikes1, r.ret, TRUE)} :
    \E upd \in {HandleArticleUpdate(articles, selectedArticle,
                                    [article EXCEPT !.id = r.ret,
                                                    !.likeCount = nLike.count,
                                                    !.dislikeCount = nDislike.count])} :
        /\ articlesTable' = r.tbl
        /\ IF ResolutionFailed(r.ret)
           THEN /\ glast' = [op |-> op, article |-> article, target |-> r.ret,
                             calls |-> r.calls, writes |-> 0]
                /\ UNCHANGED <<likes, dislikes, articles, selectedArticle>>
           ELSE /\ likes' = likes1
                /\ dislikes' = dislikes1
                /\ articles' = upd.articles
                /\ selectedArticle' = upd.selectedArticle
                /\ glast' = [op |-> op, article |-> article, target |-> r.ret,
                             calls |-> r.calls + t.calls + nLike.calls + nDislike.calls,
                             writes |-> 1]
        /\ UNCHANGED <<hist, last, inflight, alast, nlast, favorites, currentUser,
                       favoriteArticleIds, showLoginModal, resolving, elast, detailVars,
                       extVars>>

handleLike(article, okSelect, fails) ==
    IF RequiresLogin(currentUser)
    THEN LoginPrompt("handleLike", article)
    ELSE VoteGesture("handleLike", article, okSelect, fails)

handleDislike(article, okSelect, fails) ==
    IF RequiresLogin(currentUser)
    THEN LoginPrompt("handleDislike", article)
    ELSE VoteGesture("handleDislike", article, okSelect, fails)

\* okFav is whether the store takes the favorite insert or delete; the handler
\* does not read what addFavorite / removeFavorite return
handleToggleFavorite(article, okSelect, fails, okFav) ==
    IF RequiresLogin(currentUser)
    THEN LoginPrompt("handleToggleFavorite", article)
    ELSE \E r \in {EnsureArticleSaved(articlesTable, article, okSelect, fails)} :
         \E isFav \in {r.ret \in favoriteArticleIds} :
         \E f \in {IF isFav THEN RemoveFavorite(favorites, r.ret, currentUser, okFav)
                            ELSE AddFavorite(favorites, r.ret, currentUser, okFav)} :
             /\ articlesTable' = r.tbl
             /\ IF ResolutionFailed(r.ret)
                THEN /\ glast' = [op |-> "handleToggleFavorite", article |-> article,
                                  target |-> r.ret, calls |-> r.calls, writes |-> 0]
                     /\ UNCHANGED <<favorites, favoriteArticleIds>>
                ELSE /\ favorites' = f.rel
                     /\ favoriteArticleIds' = IF isFav THEN favoriteArticleIds \ {r.ret}
                                                       ELSE favoriteArticleIds \cup {r.ret}
                     /\ glast' = [op |-> "handleToggleFavorite", article |-> article,
                                  target |-> r.ret, calls |-> r.calls + f.calls,
                                  writes |-> 1]
             /\ UNCHANGED <<voteVars, alast, nlast, currentUser, articles, selectedArticle,
                            showLoginModal, resolving, elast, detailVars, extVars>>

\* setShowLoginModal, handed to the components
SetShowLoginModal(b) ==
    /\ showLoginModal' = b
    /\ UNCHANGED <<voteVars, artVars, nlast, favorites, currentUser, articles,
                   selectedArticle, favoriteArticleIds, glast, resolving, elast, detailVars,
                   extVars>>

(***************************************************************************)
(* SpecApp: gestures on the articles the view holds, one after another.    *)
(* The view starts with a list of transient articles (no id, no counts)    *)
(* and of articles read from the store, and with or without a user; the    *)
(* store may hold an article and another user's votes on it.               *)
(***************************************************************************)
TransientArticles ==
    {[id |-> 0, url |-> u, category |-> "", likeCount |-> NoCount, dislikeCount |-> NoCount] :
        u \in {1, 4}}

ListedFromStore(T) ==
    {[id |-> T[i].id, url |-> T[i].url, category |-> T[i].category,
      likeCount |-> 0, dislikeCount |-> 0] : i \in DOMAIN T}

InitApp ==
    /\ ExtInit
    /\ hist = <<>> /\ last = NoCall /\ inflight = [c \in 1..MaxCalls |-> Idle]
    /\ alast = NoArticleCall
    /\ nlast = NoNormalizeCall
    /\ resolving = [c \in 1..MaxCalls |-> NotResolving]
    /\ elast = NoEnrichCall
    /\ DetailInit
    /\ articlesTable \in {<<>>, <<[id |-> 1, url |-> 1, category |-> "Generale"]>>}
    /\ likes \in {{}} \cup {{VoteRow(1, NumUsers)} : i \in DOMAIN articlesTable}
    /\ dislikes = {}
    /\ favorites = {}
    /\ currentUser \in {0, 1}
    /\ \E n \in 1..MaxList :
          articles \in [1..n -> TransientArticles \cup ListedFromStore(articlesTable)]
    /\ selectedArticle \in {NoArticle} \cup {articles[i] : i \in DOMAIN articles}
    /\ favoriteArticleIds = {}
    /\ showLoginModal = FALSE
    /\ glast = NoGesture

NextApp ==
    \/ \E article \in Held, okSelect \in BOOLEAN, fails \in {{}, {1}} :
          handleLike(article, okSelect, fails)
    \/ \E article \in Held, okSelect \in BOOLEAN, fails \in {{}, {1}} :
          handleDislike(article, okSelect, fails)
    \/ \E article \in Held, okSelect \in BOOLEAN, fails \in {{}, {1}}, okFav \in BOOLEAN :
          handleToggleFavorite(article, okSelect, fails, okFav)
    \/ \E b \in BOOLEAN : SetShowLoginModal(b)

SpecApp == InitApp /\ [][NextApp]_vars

\* The step is a gesture on the article with these resolver outcomes.
GestureStep(article, okSelect, fails) ==
    \/ handleLike(article, okSelect, fails)
    \/ handleDislike(article, okSelect, fails)
    \/ \E okFav \in BOOLEAN : handleToggleFavorite(article, okSelect, fails, okFav)

\* C12: handleLike, handleDislike or handleToggleFavorite invoked with no
\* authenticated user sets the login prompt flag, issues no store call and
\* leaves the article list, the selected article and the favorite-id set
\* (and the store) unchanged.
C12_LoginRequired ==
    [][\A article \in Held, okSelect \in BOOLEAN, fails \in {{}, {1}} :
          (currentUser = 0 /\ GestureStep(article, okSelect, fails)) =>
              /\ showLoginModal' = TRUE
              /\ glast'.calls = 0
              /\ glast'.writes = 0
              /\ UNCHANGED <<articles, selectedArticle, favoriteArticleIds,
                             likes, dislikes, favorites, articlesTable>>]_vars

\* The case of C12: a favorite gesture on a transient article, nobody signed in.
C12_Witness ==
    /\ currentUser = 0
    /\ glast.op = "handleToggleFavorite"
    /\ glast.article.id = 0
    /\ glast.calls = 0
    /\ showLoginModal
    /\ articlesTable = <<>>
    /\ favoriteArticleIds = {}

\* The lookup finds no row and the upsert fails or returns nothing.
CannotPersist(article, okSelect, fails) ==
    /\ ~HasSavedIdShape(article.id)
    /\ SelectArticleIdByUrl(articlesTable, article.url, okSelect) = 0
    /\ 1 \in fails \/ ~HasUrl(article.url)

\* C13: when the lookup finds no row and the upsert fails or returns
\* nothing, ensureArticleSaved returns null and the vote or favorite gesture
\* ends without a toggle, favorite insert or favorite delete and with the
\* article list, the selected article and the favorite-id set unchanged.
C13_AbortOnFailedResolution ==
    [][\A article \in Held, okSelect \in BOOLEAN, fails \in {{}, {1}} :
          (/\ currentUser # 0
           /\ CannotPersist(article, okSelect, fails)
           /\ GestureStep(article, okSelect, fails)) =>
              /\ EnsureArticleSaved(articlesTable, article, okSelect, fails).ret = 0
              /\ glast'.target = 0
              /\ glast'.writes = 0
              /\ UNCHANGED <<articles, selectedArticle, favoriteArticleIds,
                             likes, dislikes, favorites, articlesTable>>]_vars

\* The case of C13: a signed-in user's like of a transient article with a
\* url; the lookup and the rejected upsert were issued, nothing else.
C13_Witness ==
    /\ currentUser # 0
    /\ glast.op = "handleLike"
    /\ glast.article.id = 0
    /\ HasUrl(glast.article.url)
    /\ glast.target = 0
    /\ glast.calls = 2
    /\ glast.writes = 0
    /\ likes = {}

\* C14: after a vote gesture that ran to completion every holder of the
\* article (list entry or selected article whose id or url matches) has
\* likeCount and dislikeCount equal to the cardinalities of the likes and
\* dislikes relations for the article.
C14_CountsReadBack ==
    (glast.op \in {"handleLike", "handleDislike"} /\ glast.target # 0) =>
        \A h \in Held :
            (h.id = glast.target \/ h.url = glast.article.url) =>
                /\ h.likeCount = Cardinality({r \in likes : r.article_id = glast.target})
                /\ h.dislikeCount = Cardinality({r \in dislikes : r.article_id = glast.target})

\* The case of C14: the view showed 0 likes, another user's like was in the
\* store, and after the like the holders show 2.
C14_Witness ==
    /\ glast.op = "handleLike"
    /\ glast.target # 0
    /\ glast.article.likeCount = 0
    /\ \E i \in DOMAIN articles : articles[i].id = glast.target /\ articles[i].likeCount = 2
    /\ selectedArticle # NoArticle /\ selectedArticle.likeCount = 2

\* C15: after a gesture whose resolution gave a transient article its
\* durable id, every copy of the article in the view (list entries and
\* selected article) carries that id, and resolving a copy again returns at
\* the id check with no store call.
C15_IdPropagated ==
    (glast.op \in Gestures /\ glast.article.id = 0 /\ glast.target # 0) =>
        \A h \in Held :
            h.url = glast.article.url =>
                /\ h.id = glast.target
                /\ EnsureArticleSaved(articlesTable, h, TRUE, {}).calls = 0

\* C23: after a favorite gesture has completed, the favorite-id set the
\* view holds contains the article's durable id if and only if the store
\* holds the favorite row of (article, current user); a rejected insert or
\* delete leaves the set as it was.
C23_FavoriteSetMirrorsStore ==
    (glast.op = "handleToggleFavorite" /\ glast.target # 0) =>
        (glast.target \in favoriteArticleIds <=> HasVote(favorites, glast.target, currentUser))

(***************************************************************************)
(* SpecRace: identity resolutions in flight together, interleaving at      *)
(* their store calls: ensureArticleSaved (vote and favorite gestures)      *)
(* awaits the lookup by url and then the upsert of saveArticles;           *)
(* ensureSavedId (comment gesture) awaits the upsert.  Store calls take    *)
(* effect.  A finished resolution keeps its result until it is collected.  *)
(***************************************************************************)
Resolvers == {"ensureArticleSaved", "ensureSavedId"}

RaceArticles ==
    {[id |-> 0, url |-> u, category |-> "", likeCount |-> NoCount, dislikeCount |-> NoCount] :
        u \in UrlIds}

\* The call is made: the id check (dbId for the detail view), then the first await.
BeginResolve(c, kind, article, dbId) ==
    /\ resolving[c].pc = "idle"
    /\ kind = "ensureArticleSaved" => dbId = 0
    /\ kind = "ensureSavedId" =>
          dbId \in {0, SelectArticleIdByUrl(articlesTable, article.url, TRUE)}
    /\ resolving' = [resolving EXCEPT ![c] =
          IF kind = "ensureArticleSaved"
          THEN IF HasSavedIdShape(article.id)
               THEN [pc |-> "done", kind |-> kind, article |-> article, ret |-> article.id,
                     wrote |-> FALSE]
               ELSE [pc |-> "select", kind |-> kind, article |-> article, ret |-> 0,
                     wrote |-> FALSE]
          ELSE IF dbId # 0
               THEN [pc |-> "done", kind |-> kind, article |-> article, ret |-> dbId,
                     wrote |-> FALSE]
               ELSE [pc |-> "upsert", kind |-> kind, article |-> article, ret |-> 0,
                     wrote |-> FALSE]]
    /\ UNCHANGED <<voteVars, artVars, nlast, favorites, hookVars, elast, detailVars,
                   extVars>>

\* const { data } = await supabase.from('articles').select('id').eq('url', article.url)
ResolveSelect(c) ==
    LET f == resolving[c]
        found == SelectArticleIdByUrl(articlesTable, f.article.url, TRUE)
    IN  /\ f.pc = "select"
        /\ resolving' = [resolving EXCEPT ![c] =
              IF found # 0 THEN [f EXCEPT !.pc = "done", !.ret = found]
                           ELSE [f EXCEPT !.pc = "upsert"]]
        /\ UNCHANGED <<voteVars, artVars, nlast, favorites, hookVars, elast, detailVars,
                       extVars>>

\* const saved = await db.saveArticles(article.category || 'Generale', [article])
ResolveUpsert(c) ==
    LET f == resolving[c]
        r == SaveArticles(articlesTable,
                          IF f.article.category = "" THEN "Generale" ELSE f.article.category,
                          <<f.article>>, {})
    IN  /\ f.pc = "upsert"
        /\ articlesTable' = r.tbl
        /\ resolving' = [resolving EXCEPT ![c] =
              [f EXCEPT !.pc = "done",
                        !.ret = IF Len(r.saved) > 0 THEN r.saved[1].id ELSE 0,
                        !.wrote = TRUE]]
        /\ UNCHANGED <<voteVars, alast, nlast, favorites, hookVars, elast, detailVars,
                       extVars>>

\* The caller takes the result.
ResolveReturn(c) ==
    /\ resolving[c].pc = "done"
    /\ resolving' = [resolving EXCEPT ![c] = NotResolving]
    /\ UNCHANGED <<voteVars, artVars, nlast, favorites, hookVars, elast, detailVars,
                   extVars>>

NextRace ==
    \E c \in 1..MaxCalls :
        \/ \E kind \in Resolvers, article \in RaceArticles, dbId \in 0..Len(articlesTable) :
              BeginResolve(c, kind, article, dbId)
        \/ ResolveSelect(c)
        \/ ResolveUpsert(c)
        \/ ResolveReturn(c)

SpecRace == Init /\ [][NextRace]_vars

RowsWithUrl(url) == {i \in DOMAIN articlesTable : articlesTable[i].url = url}

SameIdOneRow(c, d) ==
    /\ resolving[c].ret # 0
    /\ resolving[c].ret = resolving[d].ret
    /\ Cardinality(RowsWithUrl(resolving[c].article.url)) = 1

\* C16 as stated: two resolutions of the same transient article, their
\* store calls interleaved in any order, obtain the same durable id and
\* leave exactly one row for the article.
C16_ResolvedOnce_AnyArticle ==
    \A c, d \in 1..MaxCalls :
        (/\ c # d
         /\ resolving[c].pc = "done" /\ resolving[d].pc = "done"
         /\ resolving[c].article = resolving[d].article) => SameIdOneRow(c, d)

\* C16 amended: the same for a transient article that has a non-empty url.
C16_ResolvedOnce ==
    \A c, d \in 1..MaxCalls :
        (/\ c # d
         /\ resolving[c].pc = "done" /\ resolving[d].pc = "done"
         /\ resolving[c].article = resolving[d].article
         /\ HasUrl(resolving[c].article.url)) => SameIdOneRow(c, d)

\* The case of C16: a vote / favorite resolution and a comment resolution of
\* one article both reached the upsert.
C16_Witness ==
    \E c, d \in 1..MaxCalls :
        /\ resolving[c].pc = "done" /\ resolving[d].pc = "done"
        /\ resolving[c].kind = "ensureArticleSaved" /\ resolving[d].kind = "ensureSavedId"
        /\ resolving[c].article = resolving[d].article
        /\ resolving[c].wrote /\ resolving[d].wrote
        /\ resolving[c].ret = resolving[d].ret
        /\ resolving[c].ret # 0

(***************************************************************************)
(* getBatchCounts and enrichArticlesWithCounts.  A bulk read takes effect  *)
(* (data: the rows) or is rejected (data: null, error set); the client     *)
(* library does not throw.  A count map holds an entry for each article id *)
(* that has rows.                                                          *)
(***************************************************************************)
RECURSIVE SelectSeq2(_, _)
SelectSeq2(ids, keep) ==
    IF ids = <<>> THEN <<>>
    ELSE IF Head(ids) \in keep THEN <<Head(ids)>> \o SelectSeq2(Tail(ids), keep)
                               ELSE SelectSeq2(Tail(ids), keep)

\* articleIds.filter(isValidUUID)
ValidIds(articleIds) == SelectSeq2(articleIds, UuidShaped)

\* The store reads of one getBatchCounts call that has valid ids: Promise.all of two selects
RECURSIVE BatchReads_PerArticle(_)
BatchReads_PerArticle(validIds) ==
    IF validIds = <<>> THEN <<>>
    ELSE <<"likes", "dislikes">> \o BatchReads_PerArticle(Tail(validIds))

BatchReads(validIds) == <<"likes", "dislikes">>

\* data?.forEach(l => map[l.article_id] = (map[l.article_id] || 0) + 1) over
\* .select('article_id').in('article_id', validIds)
CountMap(rel, validIds, ok) ==
    LET hit == IF ok THEN {r \in rel : \E i \in DOMAIN validIds : validIds[i] = r.article_id}
                     ELSE {}
    IN  [a \in {r.article_id : r \in hit} |-> Cardinality({r \in hit : r.article_id = a})]

\* favoriteService.ts getBatchCounts
GetBatchCounts(likesRel, dislikesRel, articleIds, okLikes, okDislikes) ==
    LET validIds == ValidIds(articleIds)
    IN  IF Len(validIds) = 0
        THEN [likes |-> CountMap({}, <<>>, TRUE), dislikes |-> CountMap({}, <<>>, TRUE),
              reads |-> <<>>]
        ELSE [likes |-> CountMap(likesRel, validIds, okLikes),
              dislikes |-> CountMap(dislikesRel, validIds, okDislikes),
              reads |-> BatchReads(validIds)]

\* counts.likes[a.id] || 0
CountOr0(map, id) == IF id \in DOMAIN map THEN map[id] ELSE 0

\* !!id: undefined and "" are falsy
Truthy(id) == id # 0 /\ Len(IdText[id]) > 0

\* if (ids.length === 0) return list
NothingToEnrich(ids) == Len(ids) = 0

\* useNewsApp.ts enrichArticlesWithCounts
EnrichArticlesWithCounts(likesRel, dislikesRel, list, okLikes, okDislikes) ==
    LET ids == SelectSeq2([i \in DOMAIN list |-> list[i].id], {k \in IdUniverse : Truthy(k)})
        counts == GetBatchCounts(likesRel, dislikesRel, ids, okLikes, okDislikes)
    IN  IF NothingToEnrich(ids)
        THEN [result |-> list, reads |-> <<>>]
        ELSE [result |-> [i \in DOMAIN list |->
                            [list[i] EXCEPT
                                !.likeCount = IF Truthy(list[i].id)
                                              THEN CountOr0(counts.likes, list[i].id) ELSE 0,
                                !.dislikeCount = IF Truthy(list[i].id)
                                                 THEN CountOr0(counts.dislikes, list[i].id)
                                                 ELSE 0]],
              reads |-> counts.reads]

(***************************************************************************)
(* SpecEnrich: one call of enrichArticlesWithCounts or getBatchCounts on a *)
(* list drawn at the start, over a store that holds votes.  Articles come  *)
(* without id, with an id that is no uuid ("temp-1"), or with the id of a  *)
(* stored article; their counts are absent or a number.                    *)
(***************************************************************************)
EnrichArticles ==
    {[id |-> k, url |-> 1, category |-> "", likeCount |-> n, dislikeCount |-> n] :
        k \in {0, -5, 1, 2}, n \in {NoCount, 3}}

InitEnrich ==
    /\ ExtInit
    /\ hist = <<>> /\ last = NoCall /\ inflight = [c \in 1..MaxCalls |-> Idle]
    /\ ArtInit
    /\ nlast = NoNormalizeCall
    /\ HookInit
    /\ resolving = [c \in 1..MaxCalls |-> NotResolving]
    /\ DetailInit
    /\ likes \in {{}, {VoteRow(1, 1)}, {VoteRow(1, 1), VoteRow(1, 2)}}
    /\ dislikes \in {{}, {VoteRow(2, 1)}}
    /\ \E n \in 0..MaxList : \E list \in [1..n -> EnrichArticles], okL \in BOOLEAN,
                                okD \in BOOLEAN :
          elast = [op |-> "none", list |-> list, okLikes |-> okL, okDislikes |-> okD,
                   result |-> <<>>, reads |-> <<>>, done |-> FALSE]

enrichArticlesWithCounts ==
    LET r == EnrichArticlesWithCounts(likes, dislikes, elast.list, elast.okLikes,
                                      elast.okDislikes)
    IN  /\ ~elast.done
        /\ elast' = [elast EXCEPT !.op = "enrichArticlesWithCounts", !.result = r.result,
                                  !.reads = r.reads, !.done = TRUE]
        /\ UNCHANGED <<voteVars, artVars, nlast, favorites, hookVars, resolving, detailVars,
                       extVars>>

getBatchCounts ==
    LET r == GetBatchCounts(likes, dislikes, [i \in DOMAIN elast.list |-> elast.list[i].id],
                            elast.okLikes, elast.okDislikes)
    IN  /\ ~elast.done
        /\ elast' = [elast EXCEPT !.op = "getBatchCounts", !.reads = r.reads, !.done = TRUE]
        /\ UNCHANGED <<voteVars, artVars, nlast, favorites, hookVars, resolving, detailVars,
                       extVars>>

NextEnrich == enrichArticlesWithCounts \/ getBatchCounts

SpecEnrich == InitEnrich /\ [][NextEnrich]_vars

\* The counts the batched lookup gives for the ids of the list.
LookupOf(list) ==
    GetBatchCounts(likes, dislikes, [i \in DOMAIN list |-> list[i].id],
                   elast.okLikes, elast.okDislikes)

\* C17: enrichArticlesWithCounts returns, for every list, a list in which
\* each article with a durable id has the counts of the batched lookup for
\* its id (0 for no entry) and each article without a durable id has both
\* counts zero, a list without any id included.
C17_EnrichedCounts ==
    (elast.done /\ elast.op = "enrichArticlesWithCounts") =>
        /\ Len(elast.result) = Len(elast.list)
        /\ \A i \in DOMAIN elast.list :
              IF MatchesUuidRegex(IdText[elast.list[i].id])
              THEN /\ elast.result[i].likeCount =
                          CountOr0(LookupOf(elast.list).likes, elast.list[i].id)
                   /\ elast.result[i].dislikeCount =
                          CountOr0(LookupOf(elast.list).dislikes, elast.list[i].id)
              ELSE /\ elast.result[i].likeCount = 0
                   /\ elast.result[i].dislikeCount = 0

\* C18: when a bulk read of the batched lookup fails, enrichArticlesWithCounts
\* returns the input list with every count as the source provided it.
C18_FailedLookupKeepsList ==
    (/\ elast.done /\ elast.op = "enrichArticlesWithCounts"
     /\ elast.reads # <<>>
     /\ ~elast.okLikes \/ ~elast.okDislikes) => elast.result = elast.list

\* C19: one getBatchCounts call on a list of ids issues exactly two store
\* reads, one on likes and one on dislikes, when at least one id is
\* durable-shaped, however many ids there are, and none otherwise.
C19_TwoBulkReads ==
    (elast.done /\ elast.op = "getBatchCounts") =>
        elast.reads = IF \E i \in DOMAIN elast.list : MatchesUuidRegex(IdText[elast.list[i].id])
                      THEN <<"likes", "dislikes">>
                      ELSE <<>>

\* The case of C19: two durable-shaped ids, two reads.
C19_Witness ==
    /\ elast.done /\ elast.op = "getBatchCounts"
    /\ Len(elast.list) = MaxList
    /\ \A i \in DOMAIN elast.list : elast.list[i].id = i
    /\ elast.reads = <<"likes", "dislikes">>
    /\ likes # {} /\ dislikes # {}

(***************************************************************************)
(* The comments relation and the comment gestures of the detail view.  The *)
(* view shows one stored article; a comment row is [id, article_id,        *)
(* user_id], a comment in the view [id, userId].  The store gives a new    *)
(* comment an id above every id in use.                                    *)
(***************************************************************************)
MaxComments == 3    \* comment ids 1..MaxComments

DetailArticleId == 1    \* dbId of the article the detail view shows

CommentIds == 1..MaxComments

\* .order('created_at', { ascending: false }): newest (highest id) first
RECURSIVE NewestFirst(_)
NewestFirst(rows) ==
    IF rows = {} THEN <<>>
    ELSE LET r == CHOOSE x \in rows : \A y \in rows : y.id <= x.id
         IN  <<[id |-> r.id, userId |-> r.user_id]>> \o NewestFirst(rows \ {r})

\* favoriteService.ts getComments
GetComments(T, articleId, ok) ==
    IF ~IsValidUUID(articleId) \/ ~ok THEN <<>>
    ELSE NewestFirst({r \in T : r.article_id = articleId})

\* favoriteService.ts deleteComment: .delete().eq('id', commentId).eq('user_id', userId)
DeleteComment(T, commentId, userId, ok) ==
    IF ok THEN {r \in T : ~(r.id = commentId /\ r.user_id = userId)} ELSE T

\* prev.filter(c => c.id !== commentId)
WithoutComment(list, commentId) ==
    SelectSeq(list, LAMBDA c : c.id # commentId)

AuthorOf(T, commentId) ==
    IF \E r \in T : r.id = commentId THEN (CHOOSE r \in T : r.id = commentId).user_id ELSE 0

IdsInUse == {r.id : r \in commentsTable} \cup {comments[i].id : i \in DOMAIN comments}

\* ArticleDetail loadComments
loadComments(ok) ==
    /\ comments' = GetComments(commentsTable, DetailArticleId, ok)
    /\ clast' = [op |-> "loadComments", commentId |-> 0, user |-> currentUser, author |-> 0]
    /\ UNCHANGED <<voteVars, artVars, nlast, favorites, hookVars, resolving, elast,
                   commentsTable, extVars>>

\* ArticleDetail handlePostComment: text is whether newComment.trim() is non-empty,
\* ok whether the insert takes effect (addComment throws otherwise)
handlePostComment(text, ok) ==
    LET newId == IF IdsInUse = {} THEN 1
                 ELSE 1 + (CHOOSE x \in IdsInUse : \A y \in IdsInUse : y <= x)
        posted == text /\ currentUser # 0 /\ ok
    IN  /\ newId \in CommentIds
        /\ commentsTable' = IF posted
                            THEN commentsTable \cup {[id |-> newId, article_id |-> DetailArticleId,
                                                      user_id |-> currentUser]}
                            ELSE commentsTable
        /\ comments' = IF posted THEN <<[id |-> newId, userId |-> currentUser]>> \o comments
                                 ELSE comments
        /\ clast' = [op |-> "handlePostComment", commentId |-> IF posted THEN newId ELSE 0,
                     user |-> currentUser, author |-> IF posted THEN currentUser ELSE 0]
        /\ UNCHANGED <<voteVars, artVars, nlast, favorites, hookVars, resolving, elast,
                       extVars>>

\* ArticleDetail performDeleteComment
performDeleteComment(commentId, ok) ==
    /\ clast' = [op |-> "performDeleteComment", commentId |-> commentId, user |-> currentUser,
                 author |-> AuthorOf(commentsTable, commentId)]
    /\ IF currentUser = 0
       THEN UNCHANGED <<commentsTable, comments>>
       ELSE /\ commentsTable' = DeleteComment(commentsTable, commentId, currentUser, ok)
            /\ comments' = WithoutComment(comments, commentId)
    /\ UNCHANGED <<voteVars, artVars, nlast, favorites, hookVars, resolving, elast,
                   extVars>>

(***************************************************************************)
(* SpecDetail: the detail view of a stored article, opened by nobody or by *)
(* a user, over comments by several authors; the comment gestures run one  *)
(* after another.                                                          *)
(***************************************************************************)
StoredComments ==
    {T \in SUBSET [id : 1..2, article_id : {DetailArticleId}, user_id : Users] :
        \A r, q \in T : r.id = q.id => r = q}

InitDetail ==
    /\ ExtInit
    /\ VoteInit
    /\ ArtInit
    /\ nlast = NoNormalizeCall
    /\ favorites = {}
    /\ currentUser \in {0} \cup Users
    /\ articles = <<>>
    /\ selectedArticle = NoArticle
    /\ favoriteArticleIds = {}
    /\ showLoginModal = FALSE
    /\ glast = NoGesture
    /\ resolving = [c \in 1..MaxCalls |-> NotResolving]
    /\ elast = NoEnrichCall
    /\ commentsTable \in StoredComments
    /\ comments = GetComments(commentsTable, DetailArticleId, TRUE)
    /\ clast = NoCommentCall

NextDetail ==
    \/ \E ok \in BOOLEAN : loadComments(ok)
    \/ \E text \in BOOLEAN, ok \in BOOLEAN : handlePostComment(text, ok)
    \/ \E i \in DOMAIN comments, ok \in BOOLEAN : performDeleteComment(comments[i].id, ok)

SpecDetail == InitDetail /\ [][NextDetail]_vars

EnsureUserExists(U, user) == U \cup {user}

NextCommentId(T) ==
    IF T = {} THEN 1 ELSE 1 + (CHOOSE x \in {r.id : r \in T} : \A r \in T : r.id <= x)

\* favoriteService.ts addComment without the isValidUUID check
AddComment_NoIdCheck(T, U, articleId, user, ok) ==
    [comments |-> IF ok THEN T \cup {[id |-> NextCommentId(T), article_id |-> articleId,
                                      user_id |-> user]}
                        ELSE T,
     users |-> EnsureUserExists(U, user),
     threw |-> IF ok THEN "none" ELSE "store",
     calls |-> <<"ensureUserExists", "insert">>]

\* favoriteService.ts addComment: ok is whether the insert takes effect
AddComment(T, U, articleId, user, ok) ==
    IF ~IsValidUUID(articleId)
    THEN [comments |-> T, users |-> U, threw |-> "not synchronized", calls |-> <<>>]
    ELSE [comments |-> IF ok THEN T \cup {[id |-> NextCommentId(T), article_id |-> articleId,
                                           user_id |-> user]}
                             ELSE T,
          users |-> EnsureUserExists(U, user),
          threw |-> IF ok THEN "none" ELSE "store",
          calls |-> <<"ensureUserExists", "insert">>]

\* favoriteService.ts getComments: the store calls it issues
GetCommentsCalls(articleId) == IF IsValidUUID(articleId) THEN <<"select">> ELSE <<>>

addComment(articleId, user, ok) ==
    LET r == AddComment(commentsTable, users, articleId, user, ok)
    IN  /\ NextCommentId(commentsTable) \in CommentIds
        /\ commentsTable' = r.comments
        /\ users' = r.users
        /\ klast' = [op |-> "addComment", articleId |-> articleId, user |-> user,
                     threw |-> r.threw, calls |-> r.calls,
                     before |-> [comments |-> commentsTable, users |-> users],
                     list |-> <<>>]
        /\ UNCHANGED <<voteVars, artVars, nlast, favorites, hookVars, resolving, elast,
                       comments, clast, flast, cached, slast, sessVars, gflow, detail, feed>>

getComments(articleId, ok) ==
    /\ klast' = [op |-> "getComments", articleId |-> articleId, user |-> 0,
                 threw |-> "none", calls |-> GetCommentsCalls(articleId),
                 before |-> [comments |-> commentsTable, users |-> users],
                 list |-> GetComments(commentsTable, articleId, ok)]
    /\ UNCHANGED <<voteVars, artVars, nlast, favorites, hookVars, resolving, elast,
                   detailVars, users, flast, cached, slast, sessVars, gflow, detail, feed>>

(***************************************************************************)
(* SpecLedger: comment-ledger calls with any article id, one after         *)
(* another, over a store that may hold comments and profile rows.          *)
(***************************************************************************)
InitLedger ==
    /\ GestInit
    /\ detail = NoDetail
    /\ feed = NoFeed
    /\ VoteInit
    /\ ArtInit
    /\ nlast = NoNormalizeCall
    /\ HookInit
    /\ resolving = [c \in 1..MaxCalls |-> NotResolving]
    /\ elast = NoEnrichCall
    /\ commentsTable \in {{}, {[id |-> 1, article_id |-> 1, user_id |-> 1]}}
    /\ comments = <<>>
    /\ clast = NoCommentCall
    /\ users \in {{}, {1}}
    /\ klast = NoLedgerCall
    /\ flast = NoFavoriteCall
    /\ cached = NoCacheCall
    /\ slast = NoSaveCall
    /\ SessInit

NextLedger ==
    \/ \E articleId \in IdInputs, user \in Users, ok \in BOOLEAN :
          addComment(articleId, user, ok)
    \/ \E articleId \in IdInputs, ok \in BOOLEAN : getComments(articleId, ok)

SpecLedger == InitLedger /\ [][NextLedger]_vars

\* C21: addComment with an article id that is not durable-shaped fails with
\* the not-yet-synchronized error before any store call and leaves the
\* comments and users relations unchanged; with a durable-shaped id the
\* author's profile row is ensured before the comment insert is issued; and
\* getComments with an invalid id returns the empty list without a store
\* call.
C21_LedgerIdCheck ==
    /\ (klast.op = "addComment" /\ klast.articleId \notin UuidShaped) =>
          /\ klast.threw = "not synchronized"
          /\ klast.calls = <<>>
          /\ commentsTable = klast.before.comments
          /\ users = klast.before.users
    /\ (klast.op = "addComment" /\ klast.articleId \in UuidShaped) =>
          /\ \E i, j \in DOMAIN klast.calls :
                /\ i < j
                /\ klast.calls[i] = "ensureUserExists"
                /\ klast.calls[j] = "insert"
          /\ klast.user \in users
          /\ \A r \in commentsTable \ klast.before.comments : r.user_id \in users
    /\ (klast.op = "getComments" /\ klast.articleId \notin UuidShaped) =>
          /\ klast.list = <<>>
          /\ klast.calls = <<>>

\* The case of C21: the first comment of a user who had no profile row, on
\* a durable article.
C21_Witness ==
    /\ klast.op = "addComment"
    /\ klast.articleId \in UuidShaped
    /\ klast.user \notin klast.before.users
    /\ klast.threw = "none"
    /\ Cardinality(commentsTable) = Cardinality(klast.before.comments) + 1

(***************************************************************************)
(* SpecFav: addFavorite and removeFavorite calls with any article id and   *)
(* user, one after another; ok is whether the store takes the call.        *)
(***************************************************************************)
addFavorite(a, u, ok) ==
    LET r == AddFavorite(favorites, a, u, ok)
    IN  /\ favorites' = r.rel
        /\ flast' = [op |-> "addFavorite", a |-> a, u |-> u, ok |-> ok, ret |-> r.ret,
                     calls |-> r.calls, before |-> favorites]
        /\ UNCHANGED <<voteVars, artVars, nlast, hookVars, resolving, elast, detailVars,
                       ledgerVars, cached, slast, sessVars, gflow, detail, feed>>

removeFavorite(a, u, ok) ==
    LET r == RemoveFavorite(favorites, a, u, ok)
    IN  /\ favorites' = r.rel
        /\ flast' = [op |-> "removeFavorite", a |-> a, u |-> u, ok |-> ok, ret |-> r.ret,
                     calls |-> r.calls, before |-> favorites]
        /\ UNCHANGED <<voteVars, artVars, nlast, hookVars, resolving, elast, detailVars,
                       ledgerVars, cached, slast, sessVars, gflow, detail, feed>>

\* The ids and users handed to the favorite calls: the durable ids, an absent
\* and a malformed id; no user, the first and the last user.
FavoriteIds == ArticleIds \cup {0, -5}
FavoriteUsers == {0, 1, NumUsers}

NextFav ==
    \/ \E a \in FavoriteIds, u \in FavoriteUsers, ok \in BOOLEAN : addFavorite(a, u, ok)
    \/ \E a \in FavoriteIds, u \in FavoriteUsers, ok \in BOOLEAN : removeFavorite(a, u, ok)

SpecFav == Init /\ [][NextFav]_vars

\* C22: for every (articleId, userId) the favorites relation holds at most
\* one row after any sequence of addFavorite and removeFavorite calls, and
\* an addFavorite on a pair that is already a favorite, which the store
\* answers with the duplicate-key conflict, reports true and leaves the
\* relation unchanged.
C22_FavoriteOncePerPair ==
    /\ \A r, q \in favorites :
          (r.article_id = q.article_id /\ r.user_id = q.user_id) => r = q
    /\ (/\ flast.op = "addFavorite"
        /\ flast.ok
        /\ HasVote(flast.before, flast.a, flast.u)) =>
          /\ flast.ret = TRUE
          /\ favorites = flast.before

\* The case of C22: an addFavorite on a pair already stored, beside another
\* user's favorite of the same article.
C22_Witness ==
    /\ flast.op = "addFavorite"
    /\ flast.ok
    /\ flast.calls = 1
    /\ HasVote(flast.before, flast.a, flast.u)
    /\ Cardinality(favorites) = 2

(***************************************************************************)
(* getCachedArticles.  Besides the short tables over the urls of UrlText,  *)
(* the store may hold more rows than the query's limit: the url with index *)
(* Len(UrlText) + k is https://x.com followed by k + 1 segments /a.        *)
(***************************************************************************)
CacheLimit == 40    \* .limit(40)

MaxStored == 3      \* longest short table

\* The string of a stored row's url.
TextOfUrl(u) ==
    IF u \in UrlIds THEN UrlText[u]
    ELSE <<"https://", "x.com">> \o
         [i \in 1..(2 * (u - Len(UrlText) + 1)) |-> IF i % 2 = 1 THEN "/" ELSE "a"]

\* categoryLabel ? categoryLabel.trim() : 'Generale'
CleanLabel(categoryLabel) ==
    IF categoryLabel = "" THEN "Generale" ELSE TrimLabel(categoryLabel)

\* .eq('category', cleanLabel).order('created_at', { ascending: false }).limit(40):
\* the k-th row of data is the row of the category with k - 1 newer ones
SelectByCategory(T, cleanLabel) ==
    LET idx == {i \in DOMAIN T : T[i].category = cleanLabel}
        n == IF Cardinality(idx) < CacheLimit THEN Cardinality(idx) ELSE CacheLimit
    IN  [k \in 1..n |-> T[CHOOSE i \in idx : Cardinality({j \in idx : j > i}) = k - 1]]

\* (a: any) => ({ id: a.id, ..., likeCount: a.like_count || 0, ... }): the rows
\* carry no like_count / dislike_count
MapRow(a) ==
    [id |-> a.id, url |-> a.url, category |-> a.category, likeCount |-> 0, dislikeCount |-> 0]

\* mapArticles without the uniqueMap
MapArticles_KeepAll(data) == [k \in DOMAIN data |-> MapRow(data[k])]

\* articleService.ts mapArticles: uniqueMap takes a row when no earlier row of
\* data has its normalized url, and keeps the rows in the order they were set
MapArticles(data) ==
    LET norm == [i \in DOMAIN data |-> NormalizeText(TextOfUrl(data[i].url))]
        taken == {i \in DOMAIN data : \A j \in 1..(i - 1) : norm[j] # norm[i]}
    IN  [k \in 1..Cardinality(taken) |->
            MapRow(data[CHOOSE i \in taken : Cardinality({j \in taken : j < i}) = k - 1])]

\* articleService.ts getCachedArticles: ok is whether the query succeeds
GetCachedArticles(T, categoryLabel, ok) ==
    IF ~ok THEN <<>>
    ELSE MapArticles(SelectByCategory(T, CleanLabel(categoryLabel)))

getCachedArticles ==
    /\ ~cached.done
    /\ cached' = [cached EXCEPT
                     !.result = GetCachedArticles(articlesTable, cached.label, cached.ok),
                     !.done = TRUE]
    /\ UNCHANGED <<voteVars, artVars, nlast, favorites, hookVars, resolving, elast,
                   detailVars, ledgerVars, flast, slast, sessVars, gflow, detail, feed>>

(***************************************************************************)
(* SpecCache: one getCachedArticles call over a store drawn at the start:  *)
(* a short table, or a table of about CacheLimit rows whose oldest and     *)
(* newest row may share a normalized url and may be of another category.   *)
(***************************************************************************)
RowCategories == {"Generale", "Tech"}

ShortTables ==
    {T \in UNION {[1..n -> [id : 1..MaxStored, url : {1, 2, 3}, category : RowCategories]] :
                     n \in 0..MaxStored} :
        /\ \A i \in DOMAIN T : T[i].id = i
        /\ \A i, j \in DOMAIN T : T[i].url = T[j].url => i = j}

LongTable(n, twins, oldest, newest) ==
    [i \in 1..n |->
        [id |-> i,
         url |-> IF twins /\ i = 1 THEN 2
                 ELSE IF twins /\ i = n THEN 1
                 ELSE Len(UrlText) + i,
         category |-> IF i = 1 THEN oldest ELSE IF i = n THEN newest ELSE "Generale"]]

LongTables ==
    {LongTable(n, twins, oldest, newest) :
        n \in (CacheLimit - 1)..(CacheLimit + 2), twins \in BOOLEAN,
        oldest \in RowCategories, newest \in RowCategories}

InitCache ==
    /\ GestInit
    /\ detail = NoDetail
    /\ feed = NoFeed
    /\ VoteInit
    /\ alast = NoArticleCall
    /\ nlast = NoNormalizeCall
    /\ HookInit
    /\ resolving = [c \in 1..MaxCalls |-> NotResolving]
    /\ elast = NoEnrichCall
    /\ DetailInit
    /\ LedgerInit
    /\ flast = NoFavoriteCall
    /\ slast = NoSaveCall
    /\ SessInit
    /\ articlesTable \in ShortTables \cup LongTables
    /\ \E label \in {"", " Tech ", "Generale"}, ok \in BOOLEAN :
          cached = [label |-> label, ok |-> ok, result |-> <<>>, done |-> FALSE]

NextCache == getCachedArticles

SpecCache == InitCache /\ [][NextCache]_vars

KeyOfRow(r) == NormalizeText(TextOfUrl(r.url))

\* C24: getCachedArticles returns at most 40 articles, all of the requested
\* category, ordered newest-created first, no two sharing a normalized url;
\* among the rows the store returned (the 40 newest of the category) with
\* equal normalized url the first one is kept; on a store error the result
\* is the empty list.
C24_CachedArticles ==
    cached.done =>
        LET res == cached.result
            T == articlesTable
            cat == IF cached.label = "" THEN "Generale"
                   ELSE IF cached.label = " Tech " THEN "Tech" ELSE cached.label
            returned == {j \in DOMAIN T :
                            /\ T[j].category = cat
                            /\ Cardinality({m \in DOMAIN T : m > j /\ T[m].category = cat}) < 40}
        IN  /\ ~cached.ok => res = <<>>
            /\ Len(res) <= 40
            /\ \A i \in DOMAIN res :
                  /\ res[i].category = cat
                  /\ \E j \in returned : T[j].id = res[i].id /\ T[j].url = res[i].url
            /\ \A i, j \in DOMAIN res : i < j => res[i].id > res[j].id
            /\ \A i, j \in DOMAIN res : KeyOfRow(res[i]) = KeyOfRow(res[j]) => i = j
            /\ \A i \in DOMAIN res : \A j \in returned :
                  KeyOfRow(T[j]) = KeyOfRow(res[i]) => T[j].id <= res[i].id

\* The case of C24: more rows of the category than the limit, the newest
\* and the oldest sharing a normalized url; the newest is returned, the
\* oldest is beyond the limit.
C24_Witness ==
    /\ cached.done /\ cached.ok
    /\ Len(articlesTable) > 40
    /\ Len(cached.result) = 40
    /\ cached.result[1].url = 1
    /\ articlesTable[1].url = 2
    /\ articlesTable[1].category = cached.result[1].category

(***************************************************************************)
(* SpecSave: one saveArticles call whose upserts the store may reject, on  *)
(* an empty store or one that holds a row.  fails holds the positions, in  *)
(* the deduplicated input, of the rejected upserts.                        *)
(***************************************************************************)
saveArticlesCall ==
    LET r == SaveArticles(articlesTable, slast.label, slast.batch, slast.fails)
    IN  /\ ~slast.done
        /\ articlesTable' = r.tbl
        /\ slast' = [slast EXCEPT !.saved = r.saved, !.done = TRUE]
        /\ UNCHANGED <<voteVars, alast, nlast, favorites, hookVars, resolving, elast,
                       detailVars, ledgerVars, flast, cached, sessVars, gflow, detail, feed>>

InitSave ==
    /\ GestInit
    /\ detail = NoDetail
    /\ feed = NoFeed
    /\ VoteInit
    /\ alast = NoArticleCall
    /\ nlast = NoNormalizeCall
    /\ HookInit
    /\ resolving = [c \in 1..MaxCalls |-> NotResolving]
    /\ elast = NoEnrichCall
    /\ DetailInit
    /\ LedgerInit
    /\ flast = NoFavoriteCall
    /\ cached = NoCacheCall
    /\ SessInit
    /\ articlesTable \in {<<>>, <<[id |-> 1, url |-> 2, category |-> "Tech"]>>}
    /\ \E label \in Labels, arts \in Batches, fails \in SUBSET (1..MaxBatch) :
          slast = [label |-> label, batch |-> arts, fails |-> fails,
                   before |-> articlesTable, saved |-> <<>>, done |-> FALSE]

NextSave == saveArticlesCall

SpecSave == InitSave /\ [][NextSave]_vars

\* The positions of the batch that open a normalized key: the unique input.
UniquePositions(arts) ==
    {i \in DOMAIN arts :
        /\ HasUrl(arts[i].url)
        /\ \A j \in 1..(i - 1) :
              ~(HasUrl(arts[j].url) /\ normalizeUrl(arts[j].url) = normalizeUrl(arts[i].url))}

\* The place of position i among the unique positions.
RankIn(P, i) == Cardinality({j \in P : j <= i})

\* C25: saveArticles returns exactly the unique input articles whose upsert
\* succeeded, in input order, each carrying the durable id of its row in
\* the store; an article whose upsert fails is absent from the result and
\* the articles after it are still persisted and returned.
C25_PartialSave ==
    slast.done =>
        LET P == UniquePositions(slast.batch)
            S == {i \in P : RankIn(P, i) \notin slast.fails}
        IN  /\ Len(slast.saved) = Cardinality(S)
            /\ \A i \in S :
                  LET a == slast.saved[RankIn(S, i)]
                  IN  /\ a.url = slast.batch[i].url
                      /\ a.id \in UuidShaped
                      /\ \E k \in DOMAIN articlesTable :
                            articlesTable[k].url = a.url /\ articlesTable[k].id = a.id
            /\ \A i \in P \ S :
                  \A k \in DOMAIN slast.saved : slast.saved[k].url # slast.batch[i].url

\* The case of C25: a batch of two unique articles, the upsert of the first
\* rejected; the second one is persisted and returned.
C25_Witness ==
    /\ slast.done
    /\ slast.fails = {1}
    /\ Len(slast.batch) = 2
    /\ Cardinality(UniquePositions(slast.batch)) = 2
    /\ Len(slast.saved) = 1
    /\ slast.saved[1].url = slast.batch[2].url
    /\ \E k \in DOMAIN articlesTable : articlesTable[k].id = slast.saved[1].id
    /\ ~\E k \in DOMAIN articlesTable : articlesTable[k].url = slast.batch[1].url

(***************************************************************************)
(* The session events of useNewsApp.ts.  The handler of a signed-in or     *)
(* token-refreshed event awaits the profile and then the favorite ids, and *)
(* sets state after each.  The signed-out handler awaits nothing.  A       *)
(* pending call is answered in one step and its continuation runs in a     *)
(* later one, so events and continuations interleave.                      *)
(***************************************************************************)
\* authService getCurrentUserProfile: the profile of the session's user, or none
GetCurrentUserProfile(sess) == sess

\* favoriteService.ts getUserFavoritesIds
GetUserFavoritesIds(rel, userId, ok) ==
    IF userId = 0 \/ ~ok THEN {}
    ELSE {r.article_id : r \in {q \in rel : q.user_id = userId}}

Handlers == 1..MaxHandlers

\* onAuthStateChange callback, SIGNED_IN / TOKEN_REFRESHED branch, up to its first await
SignedIn(h, event, u) ==
    /\ authFlow[h].pc = "idle"
    /\ IF event = "SIGNED_IN" THEN session = 0 ELSE session = u
    /\ session' = u
    /\ authFlow' = [authFlow EXCEPT ![h] = [pc |-> "awaitProfile", kind |-> event,
                                            user |-> 0, ids |-> {}]]
    /\ authLast' = [event |-> event, user |-> u]
    /\ UNCHANGED <<voteVars, artVars, nlast, favorites, hookVars, resolving, elast,
                   detailVars, ledgerVars, flast, cached, slast, gflow, detail, feed>>

\* onAuthStateChange callback, SIGNED_OUT branch
SignedOut ==
    /\ session # 0
    /\ session' = 0
    /\ currentUser' = 0
    /\ favoriteArticleIds' = {}
    /\ authLast' = [event |-> "SIGNED_OUT", user |-> 0]
    /\ UNCHANGED <<voteVars, artVars, nlast, favorites, articles, selectedArticle,
                   showLoginModal, glast, resolving, elast, detailVars, ledgerVars,
                   flast, cached, slast, authFlow, gflow, detail, feed>>

\* db.getCurrentUserProfile() is answered
ProfileRead(h) ==
    /\ authFlow[h].pc = "awaitProfile"
    /\ authFlow' = [authFlow EXCEPT ![h].pc = "profileRead",
                                    ![h].user = GetCurrentUserProfile(session)]
    /\ UNCHANGED <<voteVars, artVars, nlast, favorites, hookVars, resolving, elast,
                   detailVars, ledgerVars, flast, cached, slast, session, authLast, gflow, detail, feed>>

\* setCurrentUser(user); setShowLoginModal(false) in the event handler;
\* if (user) the favorite ids are requested
ProfileContinue(h) ==
    /\ authFlow[h].pc = "profileRead"
    /\ currentUser' = authFlow[h].user
    /\ showLoginModal' = FALSE
    /\ authFlow' = [authFlow EXCEPT ![h] = IF authFlow[h].user # 0
                                           THEN [@ EXCEPT !.pc = "awaitFavorites"]
                                           ELSE NoHandler]
    /\ UNCHANGED <<voteVars, artVars, nlast, favorites, articles, selectedArticle,
                   favoriteArticleIds, glast, resolving, elast, detailVars, ledgerVars,
                   flast, cached, slast, session, authLast, gflow, detail, feed>>

\* db.getUserFavoritesIds(user.id) is answered
FavoritesRead(h) ==
    /\ authFlow[h].pc = "awaitFavorites"
    /\ authFlow' = [authFlow EXCEPT ![h].pc = "favoritesRead",
                                    ![h].ids = GetUserFavoritesIds(favorites, authFlow[h].user,
                                                                   TRUE)]
    /\ UNCHANGED <<voteVars, artVars, nlast, favorites, hookVars, resolving, elast,
                   detailVars, ledgerVars, flast, cached, slast, session, authLast, gflow, detail, feed>>

\* setFavoriteArticleIds(ids)
FavoritesContinue(h) ==
    /\ authFlow[h].pc = "favoritesRead"
    /\ favoriteArticleIds' = authFlow[h].ids
    /\ authFlow' = [authFlow EXCEPT ![h] = NoHandler]
    /\ UNCHANGED <<voteVars, artVars, nlast, favorites, currentUser, articles,
                   selectedArticle, showLoginModal, glast, resolving, elast, detailVars,
                   ledgerVars, flast, cached, slast, session, authLast, gflow, detail, feed>>

(***************************************************************************)
(* SpecSession: the hook has mounted, with or without a session, and the   *)
(* load started at mount has set the user and the user's favorite ids; the *)
(* store holds favorites of the users; session events arrive in any order  *)
(* the collaborator can emit.                                              *)
(***************************************************************************)
InitSession ==
    /\ GestInit
    /\ detail = NoDetail
    /\ feed = NoFeed
    /\ VoteInit
    /\ ArtInit
    /\ nlast = NoNormalizeCall
    /\ favorites \in {{[id |-> 1, article_id |-> 1, user_id |-> 1]},
                      {[id |-> 1, article_id |-> 1, user_id |-> 1],
                       [id |-> 2, article_id |-> 2, user_id |-> 2]}}
    /\ session \in {0} \cup Users
    /\ currentUser = GetCurrentUserProfile(session)
    /\ favoriteArticleIds = GetUserFavoritesIds(favorites, currentUser, TRUE)
    /\ articles = <<>>
    /\ selectedArticle = NoArticle
    /\ showLoginModal \in BOOLEAN
    /\ glast = NoGesture
    /\ resolving = [c \in 1..MaxCalls |-> NotResolving]
    /\ elast = NoEnrichCall
    /\ DetailInit
    /\ LedgerInit
    /\ flast = NoFavoriteCall
    /\ cached = NoCacheCall
    /\ slast = NoSaveCall
    /\ authFlow = [h \in Handlers |-> NoHandler]
    /\ authLast = NoAuthEvent

NextSession ==
    \/ \E h \in Handlers, u \in Users : SignedIn(h, "SIGNED_IN", u)
    \/ \E h \in Handlers, u \in Users : SignedIn(h, "TOKEN_REFRESHED", u)
    \/ SignedOut
    \/ \E h \in Handlers : ProfileRead(h)
    \/ \E h \in Handlers : ProfileContinue(h)
    \/ \E h \in Handlers : FavoritesRead(h)
    \/ \E h \in Handlers : FavoritesContinue(h)

SpecSession == InitSession /\ [][NextSession]_vars

\* Every continuation started by a session event (or at mount) has finished.
Quiet == \A h \in Handlers : authFlow[h].pc = "idle"

\* C26: once a signed-out event has been handled and every continuation of
\* the earlier session events has finished, the favorite-id set is empty
\* and there is no current user; after a signed-in event for user U with no
\* later event, the favorite-id set equals U's favorites in the store.
C26_SessionEvents ==
    /\ (Quiet /\ authLast.event = "SIGNED_OUT") =>
          /\ currentUser = 0
          /\ favoriteArticleIds = {}
    /\ (Quiet /\ authLast.event = "SIGNED_IN") =>
          favoriteArticleIds =
              {r.article_id : r \in {q \in favorites : q.user_id = authLast.user}}

(***************************************************************************)
(* Vote gestures in flight together.  handleLike / handleDislike on an     *)
(* article that has its durable id await the toggle, then the two count    *)
(* reads (issued together), and then broadcast the article they were       *)
(* invoked with, carrying the id and the counts read.  Each awaited call   *)
(* is answered in one step; onImageGenerated may run in between.  Articles *)
(* carry an imageUrl here: 0 is none.                                      *)
(***************************************************************************)
GestureSlots == 1..MaxGestures

\* handleLike / handleDislike up to the first store call; the slots are taken in order
BeginVote(g, op, article) ==
    /\ gflow[g].pc = "idle"
    /\ \A k \in 1..(g - 1) : gflow[k].pc # "idle"
    /\ ~RequiresLogin(currentUser)
    /\ HasSavedIdShape(article.id)
    /\ gflow' = [gflow EXCEPT ![g] = [pc |-> "toggle", op |-> op, article |-> article,
                                      target |-> article.id,
                                      nLike |-> NoCount, nDislike |-> NoCount]]
    /\ UNCHANGED <<voteVars, artVars, nlast, favorites, hookVars, resolving, elast,
                   detailVars, ledgerVars, flast, cached, slast, sessVars, detail, feed>>

\* await db.toggleLike / db.toggleDislike(targetId, currentUser.id)
ToggleAnswered(g) ==
    /\ gflow[g].pc = "toggle"
    /\ LET t == IF gflow[g].op = "handleLike"
                THEN ToggleVote(likes, dislikes, gflow[g].target, currentUser, AllOk)
                ELSE ToggleVote(dislikes, likes, gflow[g].target, currentUser, AllOk)
       IN  /\ likes' = IF gflow[g].op = "handleLike" THEN t.own ELSE t.opp
           /\ dislikes' = IF gflow[g].op = "handleLike" THEN t.opp ELSE t.own
    /\ gflow' = [gflow EXCEPT ![g].pc = "counts"]
    /\ UNCHANGED <<hist, last, inflight, artVars, nlast, favorites, hookVars, resolving,
                   elast, detailVars, ledgerVars, flast, cached, slast, sessVars, detail, feed>>

\* db.getLikeCount(targetId) is answered
LikeCountAnswered(g) ==
    /\ gflow[g].pc = "counts"
    /\ gflow[g].nLike = NoCount
    /\ gflow' = [gflow EXCEPT ![g].nLike = GetVoteCount(likes, gflow[g].target, TRUE).count]
    /\ UNCHANGED <<voteVars, artVars, nlast, favorites, hookVars, resolving, elast,
                   detailVars, ledgerVars, flast, cached, slast, sessVars, detail, feed>>

\* db.getDislikeCount(targetId) is answered
DislikeCountAnswered(g) ==
    /\ gflow[g].pc = "counts"
    /\ gflow[g].nDislike = NoCount
    /\ gflow' = [gflow EXCEPT
                    ![g].nDislike = GetVoteCount(dislikes, gflow[g].target, TRUE).count]
    /\ UNCHANGED <<voteVars, artVars, nlast, favorites, hookVars, resolving, elast,
                   detailVars, ledgerVars, flast, cached, slast, sessVars, detail, feed>>

\* handleArticleUpdate({ ...article, id: targetId, likeCount: nLike, dislikeCount: nDislike })
Broadcast(g) ==
    /\ gflow[g].pc = "counts"
    /\ gflow[g].nLike # NoCount
    /\ gflow[g].nDislike # NoCount
    /\ LET upd == HandleArticleUpdate(articles, selectedArticle,
                      [gflow[g].article EXCEPT !.id = gflow[g].target,
                                               !.likeCount = gflow[g].nLike,
                                               !.dislikeCount = gflow[g].nDislike])
       IN  /\ articles' = upd.articles
           /\ selectedArticle' = upd.selectedArticle
    /\ glast' = [op |-> gflow[g].op, article |-> gflow[g].article,
                 target |-> gflow[g].target, calls |-> 3, writes |-> 1]
    /\ gflow' = [gflow EXCEPT ![g] = [NoGestureFlow EXCEPT !.pc = "done"]]
    /\ UNCHANGED <<voteVars, artVars, nlast, favorites, currentUser, favoriteArticleIds,
                   showLoginModal, resolving, elast, detailVars, ledgerVars, flast, cached,
                   slast, sessVars, detail, feed>>

\* onImageGenerated: p.map(a => a.url === u ? { ...a, imageUrl: i } : a)
OnImageGenerated(u, i) ==
    /\ articles' = [k \in DOMAIN articles |->
                       IF articles[k].url = u THEN [articles[k] EXCEPT !.imageUrl = i]
                                              ELSE articles[k]]
    /\ UNCHANGED <<voteVars, artVars, nlast, favorites, currentUser, selectedArticle,
                   favoriteArticleIds, showLoginModal, glast, resolving, elast, detailVars,
                   ledgerVars, flast, cached, slast, sessVars, gflow, detail, feed>>

(***************************************************************************)
(* SpecGest: user 1 is signed in; the view lists the two stored articles   *)
(* with the counts of the store (another user may have liked the first)    *)
(* and may have the first one selected.  The gestures are on the first     *)
(* article, whose image is generated while it has none.                    *)
(***************************************************************************)
InitGest ==
    /\ GestInit
    /\ detail = NoDetail
    /\ feed = NoFeed
    /\ LedgerInit
    /\ flast = NoFavoriteCall
    /\ cached = NoCacheCall
    /\ slast = NoSaveCall
    /\ SessInit
    /\ hist = <<>> /\ last = NoCall /\ inflight = [c \in 1..MaxCalls |-> Idle]
    /\ alast = NoArticleCall
    /\ nlast = NoNormalizeCall
    /\ resolving = [c \in 1..MaxCalls |-> NotResolving]
    /\ elast = NoEnrichCall
    /\ DetailInit
    /\ articlesTable = <<[id |-> 1, url |-> 1, category |-> "Generale"],
                         [id |-> 2, url |-> 3, category |-> "Generale"]>>
    /\ likes \in {{}, {VoteRow(1, 2)}}
    /\ dislikes = {}
    /\ favorites = {}
    /\ currentUser = 1
    /\ articles = [k \in DOMAIN articlesTable |->
                      [id |-> articlesTable[k].id, url |-> articlesTable[k].url,
                       category |-> articlesTable[k].category,
                       likeCount |-> Cardinality({r \in likes : r.article_id = k}),
                       dislikeCount |-> 0, imageUrl |-> 0]]
    /\ selectedArticle \in {NoArticle, articles[1]}
    /\ favoriteArticleIds = {}
    /\ showLoginModal = FALSE
    /\ glast = NoGesture

NextGest ==
    \/ \E g \in GestureSlots, op \in {"handleLike", "handleDislike"},
          article \in {h \in Held : h.id = 1} :
          BeginVote(g, op, article)
    \/ \E g \in GestureSlots : ToggleAnswered(g)
    \/ \E g \in GestureSlots : LikeCountAnswered(g)
    \/ \E g \in GestureSlots : DislikeCountAnswered(g)
    \/ \E g \in GestureSlots : Broadcast(g)
    \/ \E k \in DOMAIN articles :
          /\ articles[k].id = 1
          /\ articles[k].imageUrl = 0
          /\ OnImageGenerated(articles[k].url, 1)

SpecGest == InitGest /\ [][NextGest]_vars

\* No vote gesture is in flight.
NoVoteInFlight == \A g \in GestureSlots : gflow[g].pc \in {"idle", "done"}

\* C27: when vote gestures of one session on the same article interleaved
\* at their store calls and all have run to completion, the likeCount and
\* dislikeCount of every holder of the article equal the cardinalities of
\* the likes and dislikes relations for the article.
C27_CountsAfterInterleaving ==
    (NoVoteInFlight /\ glast.op \in {"handleLike", "handleDislike"}) =>
        \A h \in Held :
            h.id = glast.target =>
                /\ h.likeCount = Cardinality({r \in likes : r.article_id = glast.target})
                /\ h.dislikeCount = Cardinality({r \in dislikes : r.article_id = glast.target})

\* The fields the broadcast is to change.
BroadcastFields == {"id", "likeCount", "dislikeCount"}

SameButBroadcast(before, after) ==
    /\ DOMAIN after = DOMAIN before
    /\ \A f \in DOMAIN before \ BroadcastFields : after[f] = before[f]

\* C28: the broadcast that ends a vote gesture changes only id, likeCount
\* and dislikeCount of the holders whose id or url matches the article;
\* every other field of a matching holder and every holder whose id and url
\* both differ stay as they were.
C28_BroadcastFrame ==
    [][\A g \in GestureSlots :
          Broadcast(g) =>
              /\ \A k \in DOMAIN articles :
                    IF articles[k].id = gflow[g].target \/ articles[k].url = gflow[g].article.url
                    THEN SameButBroadcast(articles[k], articles'[k])
                    ELSE articles'[k] = articles[k]
              /\ selectedArticle # NoArticle =>
                    IF \/ selectedArticle.id = gflow[g].target
                       \/ selectedArticle.url = gflow[g].article.url
                    THEN SameButBroadcast(selectedArticle, selectedArticle')
                    ELSE selectedArticle' = selectedArticle]_vars


(***************************************************************************)
(* The detail view (ArticleDetail) over the article useNewsApp has         *)
(* selected.  detail.deps are the values of article.url, article.id and    *)
(* currentUser?.id the init effect last ran with: the effect runs again    *)
(* when one of them differs.  The effect's reads succeed, apart from the   *)
(* lookup of the id by url.                                                *)
(***************************************************************************)
\* favoriteService.ts hasUserLiked
HasUserLiked(likesRel, articleId, userId) ==
    IF ~IsValidUUID(articleId) \/ userId = 0 THEN FALSE ELSE HasVote(likesRel, articleId, userId)

\* favoriteService.ts hasUserDisliked
HasUserDisliked(dislikesRel, articleId, userId) ==
    IF ~IsValidUUID(articleId) \/ userId = 0 THEN FALSE
    ELSE HasVote(dislikesRel, articleId, userId)

\* [article.url, article.id, currentUser?.id]
DepsNow == [url |-> selectedArticle.url, id |-> selectedArticle.id, user |-> currentUser]

\* ArticleDetail init effect, with onUpdate bound to handleArticleUpdate
InitEffect(okSelect) ==
    /\ selectedArticle # NoArticle
    /\ detail.deps # DepsNow
    /\ \E artId \in {IF Truthy(selectedArticle.id) THEN selectedArticle.id
                     ELSE SelectArticleIdByUrl(articlesTable, selectedArticle.url, okSelect)} :
       IF ~Truthy(artId)
       THEN /\ detail' = [detail EXCEPT !.dbId = artId, !.deps = DepsNow]
            /\ UNCHANGED <<articles, selectedArticle, comments>>
       ELSE \E upd \in {HandleArticleUpdate(articles, selectedArticle,
                            [selectedArticle EXCEPT
                                !.id = artId,
                                !.likeCount = GetVoteCount(likes, artId, TRUE).count,
                                !.dislikeCount = GetVoteCount(dislikes, artId, TRUE).count])} :
            /\ articles' = upd.articles
            /\ selectedArticle' = upd.selectedArticle
            /\ detail' = IF currentUser # 0
                         THEN [dbId |-> artId,
                               userHasLiked |-> HasUserLiked(likes, artId, currentUser),
                               userHasDisliked |-> HasUserDisliked(dislikes, artId, currentUser),
                               deps |-> DepsNow]
                         ELSE [detail EXCEPT !.dbId = artId, !.deps = DepsNow]
            /\ comments' = GetComments(commentsTable, artId, TRUE)
    /\ UNCHANGED <<voteVars, artVars, nlast, favorites, currentUser, favoriteArticleIds,
                   showLoginModal, glast, resolving, elast, commentsTable, clast,
                   ledgerVars, flast, cached, slast, sessVars, gflow, feed>>

\* ArticleDetail handlePostComment with its ensureSavedId: text is whether
\* newComment.trim() is non-empty, fails the upserts that fail, ok whether the
\* comment insert takes effect
PostComment(text, fails, ok) ==
    /\ selectedArticle # NoArticle
    /\ NextCommentId(commentsTable) \in CommentIds
    /\ IF ~text \/ currentUser = 0
       THEN /\ clast' = [op |-> "handlePostComment", commentId |-> 0, user |-> currentUser,
                         author |-> 0]
            /\ UNCHANGED <<articlesTable, articles, selectedArticle, detail, commentsTable,
                           comments, users>>
       ELSE \E r \in {EnsureSavedId(articlesTable, selectedArticle, detail.dbId, fails)} :
            \E c \in {AddComment(commentsTable, users, r.ret, currentUser, ok)} :
            \E upd \in {HandleArticleUpdate(articles, selectedArticle,
                                            [selectedArticle EXCEPT !.id = r.ret])} :
            \E saved \in {r.calls > 0 /\ Truthy(r.ret)} :
            \E posted \in {Truthy(r.ret) /\ c.threw = "none"} :
               /\ articlesTable' = r.tbl
               /\ detail' = IF saved THEN [detail EXCEPT !.dbId = r.ret] ELSE detail
               /\ articles' = IF saved THEN upd.articles ELSE articles
               /\ selectedArticle' = IF saved THEN upd.selectedArticle ELSE selectedArticle
               /\ commentsTable' = IF Truthy(r.ret) THEN c.comments ELSE commentsTable
               /\ users' = IF Truthy(r.ret) THEN c.users ELSE users
               /\ comments' = IF posted
                              THEN <<[id |-> NextCommentId(commentsTable),
                                      userId |-> currentUser]>> \o comments
                              ELSE comments
               /\ clast' = [op |-> "handlePostComment",
                            commentId |-> IF posted THEN NextCommentId(commentsTable) ELSE 0,
                            user |-> currentUser,
                            author |-> IF posted THEN currentUser ELSE 0]
    /\ UNCHANGED <<voteVars, alast, nlast, favorites, currentUser, favoriteArticleIds,
                   showLoginModal, glast, resolving, elast, klast, flast, cached, slast,
                   sessVars, gflow, feed>>

(***************************************************************************)
(* SpecView: user 1 is signed in and has the detail view open on one of    *)
(* the listed articles, which are transient or read from the store.  The   *)
(* gestures are on the articles the view holds, the open one included, and *)
(* run one after another, with resolutions and store writes that may fail. *)
(***************************************************************************)
InitView ==
    /\ GestInit
    /\ LedgerInit
    /\ flast = NoFavoriteCall
    /\ cached = NoCacheCall
    /\ slast = NoSaveCall
    /\ SessInit
    /\ hist = <<>> /\ last = NoCall /\ inflight = [c \in 1..MaxCalls |-> Idle]
    /\ alast = NoArticleCall
    /\ nlast = NoNormalizeCall
    /\ resolving = [c \in 1..MaxCalls |-> NotResolving]
    /\ elast = NoEnrichCall
    /\ DetailInit
    /\ articlesTable \in {<<>>, <<[id |-> 1, url |-> 1, category |-> "Generale"]>>}
    /\ likes \in {{}} \cup {{VoteRow(1, NumUsers)} : i \in DOMAIN articlesTable}
    /\ dislikes = {}
    /\ favorites = {}
    /\ currentUser = 1
    /\ \E n \in 1..MaxList :
          articles \in [1..n -> TransientArticles \cup ListedFromStore(articlesTable)]
    /\ selectedArticle \in {articles[i] : i \in DOMAIN articles}
    /\ favoriteArticleIds = {}
    /\ showLoginModal = FALSE
    /\ glast = NoGesture
    /\ detail = [NoDetail EXCEPT !.dbId = selectedArticle.id]
    /\ feed = NoFeed

NextView ==
    \/ \E okSelect \in BOOLEAN : InitEffect(okSelect)
    \/ \E article \in Held, okSelect \in BOOLEAN, fails \in {{}, {1}} :
          handleLike(article, okSelect, fails)
    \/ \E article \in Held, okSelect \in BOOLEAN, fails \in {{}, {1}} :
          handleDislike(article, okSelect, fails)
    \/ \E article \in Held, okSelect \in BOOLEAN, fails \in {{}, {1}}, okFav \in BOOLEAN :
          handleToggleFavorite(article, okSelect, fails, okFav)
    \/ \E text \in BOOLEAN, fails \in {{}, {1}}, ok \in BOOLEAN : PostComment(text, fails, ok)

SpecView == InitView /\ [][NextView]_vars

DurableIds == {articlesTable[i].id : i \in DOMAIN articlesTable}

\* C29: every like, dislike, favorite and comment row in the store refers
\* to the id of a row of the articles relation: no gesture writes a vote, a
\* favorite or a comment for an article that has not been made durable.
C29_RowsReferToDurableArticles ==
    /\ \A r \in likes \cup dislikes : r.article_id \in DurableIds
    /\ \A r \in favorites : r.article_id \in DurableIds
    /\ \A r \in commentsTable : r.article_id \in DurableIds

\* A gesture on a transient article has made it durable and written for it,
\* and the store holds a vote, a favorite and a comment of user 1.
C29_Witness ==
    /\ glast.article.id = 0
    /\ glast.writes = 1
    /\ glast.target \in DurableIds
    /\ \E r \in likes \cup dislikes : r.user_id = 1
    /\ \E r \in favorites : r.user_id = 1
    /\ \E r \in commentsTable : r.user_id = 1

\* C30: once a vote gesture of the signed-in user on the article open in the
\* detail view has completed and the init effect has no run pending, the
\* view's userHasLiked and userHasDisliked flags equal the store's like and
\* dislike membership of (article, user).
C30_FlagsMirrorStore ==
    (/\ glast.op \in {"handleLike", "handleDislike"}
     /\ glast.writes = 1
     /\ currentUser # 0
     /\ selectedArticle # NoArticle
     /\ glast.target = selectedArticle.id
     /\ detail.deps = DepsNow) =>
        /\ detail.userHasLiked = HasVote(likes, selectedArticle.id, currentUser)
        /\ detail.userHasDisliked = HasVote(dislikes, selectedArticle.id, currentUser)


(***************************************************************************)
(* Loading the article list: fetchNews and the mode effect of useNewsApp.  *)
(* feed.flows are the loads started, in the order they were requested;     *)
(* each goes through its awaits one answer at a time.  A category stands   *)
(* for its label, and a search term is requested the way a label is.       *)
(***************************************************************************)
FetchSlots == 1..MaxFetches

HasFreeSlot(fd) == \E f \in FetchSlots : fd.flows[f].pc = "idle"

FreeSlot(fd) == CHOOSE f \in FetchSlots :
                   /\ fd.flows[f].pc = "idle"
                   /\ \A k \in 1..(f - 1) : fd.flows[k].pc # "idle"

StartFlow(fd, kind, label, forceAi) ==
    [fd EXCEPT !.flows[FreeSlot(fd)] =
        [pc |-> IF kind = "favorites" THEN "favs" ELSE IF forceAi THEN "ai" ELSE "cache",
         kind |-> kind, label |-> label, forceAi |-> forceAi, isMounted |-> TRUE,
         list |-> <<>>, wrote |-> FALSE]]

\* fetchNews up to its first await: if (currentRequestMode.current === 'favorites') return
FetchNews(fd, label, forceAi) ==
    IF fd.currentRequestMode = "favorites" THEN fd ELSE StartFlow(fd, "news", label, forceAi)

\* The mode effect, run on the state fd after the cleanup of its previous run
\* (isMounted = false)
ModeEffect(fd) ==
    LET cleaned == [fd EXCEPT !.flows = [f \in FetchSlots |->
                                            [fd.flows[f] EXCEPT !.isMounted = FALSE]]]
    IN  IF cleaned.showFavoritesOnly
        THEN IF currentUser # 0
             THEN StartFlow([cleaned EXCEPT !.currentRequestMode = "favorites"],
                            "favorites", "", FALSE)
             ELSE cleaned
        ELSE LET news == [cleaned EXCEPT !.currentRequestMode = "news"]
             IN  IF news.label # "" THEN FetchNews(news, news.label, FALSE) ELSE news

\* favoriteService.ts getUserFavoriteArticles: the user's favorites, newest
\* first, joined with their article rows
RECURSIVE FavoriteArticles(_, _)
FavoriteArticles(rows, T) ==
    IF rows = {} THEN <<>>
    ELSE LET r == CHOOSE x \in rows : \A y \in rows : y.id <= x.id
             art == {i \in DOMAIN T : T[i].id = r.article_id}
         IN  (IF art = {} THEN <<>> ELSE <<MapRow(T[CHOOSE i \in art : TRUE])>>)
             \o FavoriteArticles(rows \ {r}, T)

GetUserFavoriteArticles(rel, T, userId, ok) ==
    IF userId = 0 \/ ~ok THEN <<>>
    ELSE FavoriteArticles({r \in rel : r.user_id = userId}, T)

\* saved.map(a => ({ ...a, isNew: true })): saved articles carry no counts
AsListed(saved) ==
    [i \in DOMAIN saved |->
        [id |-> saved[i].id, url |-> saved[i].url, category |-> saved[i].category,
         likeCount |-> NoCount, dislikeCount |-> NoCount]]

FetchFrame ==
    <<voteVars, alast, nlast, favorites, currentUser, selectedArticle, showLoginModal, glast,
      resolving, elast, detailVars, ledgerVars, flast, cached, slast, sessVars, gflow, detail>>

\* setShowFavoritesOnly(b), and the mode effect it triggers
setShowFavoritesOnly(b) ==
    /\ b # feed.showFavoritesOnly
    /\ HasFreeSlot(feed)
    /\ feed' = ModeEffect([feed EXCEPT !.showFavoritesOnly = b])
    /\ UNCHANGED <<FetchFrame, articlesTable, articles, favoriteArticleIds>>

\* setActiveCategoryId(id), and the mode effect it triggers
setActiveCategoryId(label) ==
    /\ label # feed.label \/ feed.showFavoritesOnly
    /\ HasFreeSlot(feed)
    /\ feed' = ModeEffect([feed EXCEPT !.label = label, !.showFavoritesOnly = FALSE])
    /\ UNCHANGED <<FetchFrame, articlesTable, articles, favoriteArticleIds>>

\* loadNews: fetchNews(cat.value, cat.label, true)
loadNews ==
    /\ feed.label # ""
    /\ HasFreeSlot(feed)
    /\ feed' = FetchNews(feed, feed.label, TRUE)
    /\ UNCHANGED <<FetchFrame, articlesTable, articles, favoriteArticleIds>>

\* await db.getCachedArticles(label) is answered
CachedAnswered(f, ok) ==
    /\ feed.flows[f].pc = "cache"
    /\ \E got \in {GetCachedArticles(articlesTable, feed.flows[f].label, ok)} :
          feed' = IF Len(got) > 0
                  THEN [feed EXCEPT !.flows[f].pc = "enrich", !.flows[f].list = got]
                  ELSE [feed EXCEPT !.flows[f].pc = "ai"]
    /\ UNCHANGED <<FetchFrame, articlesTable, articles, favoriteArticleIds>>

\* await fetchPositiveNews(query, label) is answered with aiArticles, and
\* db.saveArticles(label, aiArticles) has run
AiAnswered(f, aiArticles, fails) ==
    /\ feed.flows[f].pc = "ai"
    /\ IF Len(aiArticles) = 0
       THEN /\ feed' = [feed EXCEPT !.flows[f].pc = "done"]
            /\ UNCHANGED articlesTable
       ELSE \E r \in {SaveArticles(articlesTable, feed.flows[f].label, aiArticles, fails)} :
            /\ articlesTable' = r.tbl
            /\ feed' = [feed EXCEPT !.flows[f].pc = "enrich",
                                    !.flows[f].list = AsListed(r.saved)]
    /\ UNCHANGED <<FetchFrame, articles, favoriteArticleIds>>

\* fetchNews: await enrichArticlesWithCounts(...) is answered; setArticles(finalArticles)
SetNewsArticles(f, ok) ==
    /\ feed.flows[f].pc = "enrich"
    /\ \E e \in {EnrichArticlesWithCounts(likes, dislikes, feed.flows[f].list, ok, ok)} :
          /\ articles' = e.result
          /\ feed' = [feed EXCEPT !.flows[f].pc = "done", !.flows[f].list = e.result,
                                  !.flows[f].wrote = TRUE, !.shown = f]
    /\ UNCHANGED <<FetchFrame, articlesTable, favoriteArticleIds>>

\* The ids enrichArticlesWithCounts would look up
IdsToEnrich(list) ==
    SelectSeq2([i \in DOMAIN list |-> list[i].id], {k \in IdUniverse : Truthy(k)})

\* db.getUserFavoriteArticles(currentUser.id) is answered:
\* if (!isMounted || currentRequestMode.current !== 'favorites') return.
\* With no id to look up enrichArticlesWithCounts returns the list without a
\* store call, and the list is set in the same turn.
FavoritesAnswered(f, ok) ==
    /\ feed.flows[f].pc = "favs"
    /\ \E favs \in {GetUserFavoriteArticles(favorites, articlesTable, currentUser, ok)} :
       IF ~feed.flows[f].isMounted \/ feed.currentRequestMode # "favorites"
       THEN /\ feed' = [feed EXCEPT !.flows[f].pc = "done"]
            /\ UNCHANGED <<articles, favoriteArticleIds>>
       ELSE IF NothingToEnrich(IdsToEnrich(favs))
       THEN /\ articles' = favs
            /\ favoriteArticleIds' = {}
            /\ feed' = [feed EXCEPT !.flows[f].pc = "done", !.flows[f].list = favs,
                                    !.flows[f].wrote = TRUE, !.shown = f]
       ELSE /\ feed' = [feed EXCEPT !.flows[f].pc = "favEnrich", !.flows[f].list = favs]
            /\ UNCHANGED <<articles, favoriteArticleIds>>
    /\ UNCHANGED <<FetchFrame, articlesTable>>

\* mode effect: await enrichArticlesWithCounts(favs) is answered;
\* setArticles(enriched); setFavoriteArticleIds(...)
SetFavoriteArticles(f, ok) ==
    /\ feed.flows[f].pc = "favEnrich"
    /\ \E e \in {EnrichArticlesWithCounts(likes, dislikes, feed.flows[f].list, ok, ok)} :
          /\ articles' = e.result
          /\ favoriteArticleIds' = {e.result[i].id : i \in DOMAIN e.result} \ {0}
          /\ feed' = [feed EXCEPT !.flows[f].pc = "done", !.flows[f].list = e.result,
                                  !.flows[f].wrote = TRUE, !.shown = f]
    /\ UNCHANGED <<FetchFrame, articlesTable>>

(***************************************************************************)
(* SpecFetch: the store holds an article of category Generale and may hold *)
(* one of category Tech; user 1 may be signed in and may have a favorite.  *)
(* The hook has mounted and no category is active yet.                     *)
(***************************************************************************)
FeedLabels == {"Generale", "Tech"}

\* what the generator may answer: nothing, or one transient article
GeneratorAnswers == {<<>>, <<[id |-> 0, url |-> 2, category |-> ""]>>}

InitFetch ==
    /\ GestInit
    /\ detail = NoDetail
    /\ feed = NoFeed
    /\ LedgerInit
    /\ flast = NoFavoriteCall
    /\ cached = NoCacheCall
    /\ slast = NoSaveCall
    /\ SessInit
    /\ hist = <<>> /\ last = NoCall /\ inflight = [c \in 1..MaxCalls |-> Idle]
    /\ alast = NoArticleCall
    /\ nlast = NoNormalizeCall
    /\ resolving = [c \in 1..MaxCalls |-> NotResolving]
    /\ elast = NoEnrichCall
    /\ DetailInit
    /\ articlesTable \in {<<[id |-> 1, url |-> 1, category |-> "Generale"]>>,
                          <<[id |-> 1, url |-> 1, category |-> "Generale"],
                            [id |-> 2, url |-> 3, category |-> "Tech"]>>}
    /\ likes = {} /\ dislikes = {}
    /\ currentUser \in {0, 1}
    /\ favorites \in {{}} \cup {{[id |-> 1, article_id |-> 1, user_id |-> 1]} : u \in {currentUser} \ {0}}
    /\ favoriteArticleIds = {r.article_id : r \in favorites}
    /\ articles = <<>>
    /\ selectedArticle = NoArticle
    /\ showLoginModal = FALSE
    /\ glast = NoGesture

NextFetch ==
    \/ \E b \in BOOLEAN : setShowFavoritesOnly(b)
    \/ \E label \in FeedLabels : setActiveCategoryId(label)
    \/ loadNews
    \/ \E f \in FetchSlots, ok \in BOOLEAN : CachedAnswered(f, ok)
    \/ \E f \in FetchSlots, aiArticles \in GeneratorAnswers, fails \in {{}, {1}} :
          AiAnswered(f, aiArticles, fails)
    \/ \E f \in FetchSlots, ok \in BOOLEAN : SetNewsArticles(f, ok)
    \/ \E f \in FetchSlots, ok \in BOOLEAN : FavoritesAnswered(f, ok)
    \/ \E f \in FetchSlots, ok \in BOOLEAN : SetFavoriteArticles(f, ok)

SpecFetch == InitFetch /\ [][NextFetch]_vars

Started == {f \in FetchSlots : feed.flows[f].pc # "idle"}

\* C31: two news fetches for different labels were in flight, no favorites
\* load was started, and every load has completed: if the fetch requested
\* last set the list, the list shown is its result.
C31_LastRequestedFetchShown ==
    \A f, g \in Started :
        (/\ \A k \in Started : feed.flows[k].pc = "done" /\ feed.flows[k].kind = "news"
         /\ \A k \in Started : k <= g
         /\ f < g
         /\ feed.flows[f].label # feed.flows[g].label
         /\ feed.flows[g].wrote) =>
            /\ feed.shown = g
            /\ articles = feed.flows[g].list

\* Favorites-only mode is active: the flag is set and the mode effect has
\* switched the request mode for the signed-in user.
FavoritesOnlyActive == feed.showFavoritesOnly /\ feed.currentRequestMode = "favorites"

\* C32: no step of a news fetch sets the list while favorites-only mode is
\* active, and no step of a favorites load sets the list while it is not.
C32_ModeGuardsList ==
    [][\A f \in FetchSlots, ok \in BOOLEAN :
          /\ SetNewsArticles(f, ok) => ~FavoritesOnlyActive
          /\ SetFavoriteArticles(f, ok) => feed.showFavoritesOnly
          /\ (FavoritesAnswered(f, ok) /\ feed'.shown # feed.shown) => feed.showFavoritesOnly]_vars

====
